---- MODULE Spec2Model ----
(***************************************************************************)
(* Supervision-and-decision engine of the orchestrator: the Coordinator's  *)
(* monitoring loop (coordinator.py), the worker processes and their logs   *)
(* (workers.py), the permission recovery engine (recovery.py) and the      *)
(* review decision tree (review_engine.py).                                *)
(*                                                                         *)
(* The monitoring loop runs in its own thread (server.py,                  *)
(* run_coordinator_loop); pause, resume, stop and trigger-review are calls *)
(* made by other threads, and the worker processes run on their own.  The  *)
(* loop is therefore modelled step by step (variable pc), interleaved with *)
(* the control calls and with what the worker processes do (Spec).         *)
(* SpecEval, SpecRound and SpecFold follow one operation each, from every  *)
(* input of a bounded set: evaluate_reviews, the review round, and the     *)
(* state-update pass of one worker, event by event.                        *)
(***************************************************************************)
EXTENDS Integers, Sequences, FiniteSets, TLC

\* ------------------------------------------------------------------ bounds
\* Steps of the environment in one behaviour: lines the worker processes write
\* (to their logs or diagnostic streams), trigger-review calls, polls of the
\* event stream, and expiries of the 15-minute review interval.
MaxEnvSteps == 2
\* Longest batch of one worker drawn for a state-update pass (SpecFold) or a
\* review round (SpecRound).
MaxBatch == 2
\* Longest list of peer reviews drawn for evaluate_reviews (SpecEval).
MaxReviews == 4

MaxTargetEvents == 4

\* ------------------------------------------------------------ enumerations
AgentName == {"gemini", "codex", "claude"}

\* Insertion order of WorkerManager.workers, the order every loop over
\* all_events.items() follows: launch_all_workers launches Gemini, Claude, Codex.
LaunchOrder == <<"gemini", "claude", "codex">>

EventType ==
    {"status", "progress", "finding", "task", "blocker", "milestone",
     "review", "error", "recovery", "permission_blocker"}

Verdict == {"approved", "concerns", "blocker"}

Action == {"CONTINUE", "LOG_WARNING", "PAUSE_AND_CLARIFY", "STOP_AND_ESCALATE"}

WorkerStatus == {"idle", "running", "blocked", "completed", "failed", "recovering"}

\* EventPayload.progress is Optional[int]: None is modelled as -1.
NoProgress == -1

\* --------------------------------------------------------------- the texts
\* Payload texts are concrete strings.  Python's substring tests on them
\* ("kw" in text.lower(), re.search(pattern, text, re.IGNORECASE), "kw" in text)
\* are modelled by two tables: the key phrases found in the lower-cased text and
\* the key phrases found in the text as written.
LowerPhrases(text) ==
    CASE text = "Working..." -> {}
      [] text = "All tasks DONE" -> {"done"}
      [] text = "Major phase complete" -> {"complete"}
      [] text = "Blocked on X" -> {}
      [] text = "Found a blocker" -> {"blocker"}
      [] text = "BLOCKER raised" -> {"blocker"}
      [] text = "Please review" -> {"review"}
      [] text = "REVIEW needed" -> {"review"}
      [] text = "Path must be within one of the workspace directories" ->
            {"path must be within one of the workspace directories"}
      [] text = "Not inside a trusted directory" -> {"not inside a trusted directory"}
      [] text = "Permission denied" -> {"permission denied"}
      [] text = "Malformed JSON: {bad" -> {}
      [] text = "Recovery: gemini_permissions - relaunched_with_directories" -> {}
      [] text = "Recovery: codex_git_check - relaunched_with_skip_flag" -> {}
      [] text = "Recovery: escalated_permission - user_intervention_required" ->
            {"permission"}
      [] text = "Permission blocker: Generic permission error" ->
            {"blocker", "permission"}
      [] text = "File path must be within one of the workspace directories" ->
            {"path must be within one of the workspace directories",
             "file path must be within one of the workspace directories"}
      [] text = "path must be within one of the WORKSPACE DIRECTORIES" ->
            {"path must be within one of the workspace directories"}
      [] text = "Permission denied outside the workspace directories" ->
            {"permission denied"}
      [] text = "Permission denied: /some/path" -> {"permission denied"}
      [] text = "permission denied" -> {"permission denied"}
      [] text = "PERMISSION DENIED" -> {"permission denied"}
      [] text = "Permission denied: not a git repository" ->
            {"permission denied", "not a git repository"}
      [] text = "Authentication required" -> {"authentication required"}
      [] text = "authentication REQUIRED" -> {"authentication required"}
      [] text = "not inside a trusted directory" -> {"not inside a trusted directory"}
      [] text = "Repository check failed" -> {"repository check failed"}
      [] text = "fatal: not a git repository (or any of the parent directories)" ->
            {"not a git repository"}
      [] text = "Access blocked" -> {"access blocked"}
      [] text = "Access Blocked by policy" -> {"access blocked"}
      [] text = "Processing file successfully" -> {}
      [] text = "Connection reset" -> {}
      [] OTHER -> {}

ExactPhrases(text) ==
    CASE text = "Path must be within one of the workspace directories" ->
            {"workspace directories"}
      [] text = "Not inside a trusted directory" -> {"trusted directory"}
      [] text = "Permission denied" -> {"Permission denied"}
      [] text = "File path must be within one of the workspace directories" ->
            {"workspace directories"}
      [] text = "Permission denied outside the workspace directories" ->
            {"Permission denied", "workspace directories"}
      [] text = "Permission denied: /some/path" -> {"Permission denied"}
      [] text = "Permission denied: not a git repository" ->
            {"Permission denied", "git repository"}
      [] text = "not inside a trusted directory" -> {"trusted directory"}
      [] text = "fatal: not a git repository (or any of the parent directories)" ->
            {"git repository"}
      [] OTHER -> {}

\* "kw" in text.lower()
LowerContains(text, kw) == kw \in LowerPhrases(text)

\* "kw" in text
Contains(text, kw) == kw \in ExactPhrases(text)

\* ------------------------------------------------------------ events, lines
Event(t, x, p) == [type |-> t, text |-> x, progress |-> p]

\* One line of a worker's JSONL log: a JSON record, or text json.loads rejects.
JsonLine(t, x, p) == [json |-> TRUE, type |-> t, text |-> x, progress |-> p]

BadLine(x) == [json |-> FALSE, type |-> "", text |-> x, progress |-> NoProgress]

\* A line of 210 characters that json.loads rejects: a record cut off inside
\* its text.
LongLine ==
    "{\"type\": \"status\", \"payload\": {\"text\": \"xxxxxxxxxxxxxxxxxxxxxxxxxxxxxxxxxxxxxxxxxxxxxxxxxxxxxxxxxxxxxxxxxxxxxxxxxxxxxxxxxxxxxxxxxxxxxxxxxxxxxxxxxxxxxxxxxxxxxxxxxxxxxxxxxxxxxxxxxxxxxxxxxxxxxxxxxxxxxxxxxxxxxxxxxx"

\* f"Malformed JSON: {line[:200]}"
MalformedText(raw) ==
    CASE raw = "{bad" -> "Malformed JSON: {bad"
      [] raw = LongLine ->
            "Malformed JSON: {\"type\": \"status\", \"payload\": {\"text\": \"xxxxxxxxxxxxxxxxxxxxxxxxxxxxxxxxxxxxxxxxxxxxxxxxxxxxxxxxxxxxxxxxxxxxxxxxxxxxxxxxxxxxxxxxxxxxxxxxxxxxxxxxxxxxxxxxxxxxxxxxxxxxxxxxxxxxxxxxxxxxxxxxxxxxxxxxxxxxxxxx"
      [] OTHER -> "Malformed JSON: ..."

\* _parse_event, with a plausible slip: a record with no recognised type is
\* taken for a status event.
ParseEventDefaultStatus(line) ==
    IF line.progress # NoProgress /\ (line.progress < 0 \/ line.progress > 100)
    THEN <<>>
    ELSE <<Event(IF line.type \in EventType THEN line.type ELSE "status",
                 line.text, line.progress)>>

\* WorkerProcess._parse_event: a record with no type or a type outside EventType
\* gives no event; EventPayload rejects a progress outside 0..100 and the
\* validation error is caught, which gives no event either.
ParseEvent(line) ==
    IF line.type = "" \/ line.type \notin EventType
    THEN <<>>
    ELSE IF line.progress # NoProgress /\ (line.progress < 0 \/ line.progress > 100)
    THEN <<>>
    ELSE <<Event(line.type, line.text, line.progress)>>

\* The body of read_events' loop, with a plausible slip: a line json.loads
\* rejects is skipped.
ParseLineDropBad(line) == IF line.json THEN ParseEvent(line) ELSE <<>>

\* The body of read_events' loop for one line.
ParseLine(line) ==
    IF line.json
    THEN ParseEvent(line)
    ELSE <<Event("error", MalformedText(line.text), NoProgress)>>

RECURSIVE ParseLines(_)
ParseLines(lines) ==
    IF lines = <<>> THEN <<>>
    ELSE ParseLine(Head(lines)) \o ParseLines(Tail(lines))

\* ------------------------------------------------- the worker state tracker
Max(a, b) == IF a >= b THEN a ELSE b

Min(a, b) == IF a <= b THEN a ELSE b

\* A WorkerState: worker.state and session.workers[name] are the same object
\* (launch_all_workers stores worker.state in the session), so one record per role.
WorkerState(s, p, n) == [status |-> s, progress |-> p, error_count |-> n]

\* sync_progress, with a plausible slip: the new value overwrites the old one.
SyncProgressOverwrite(ws, value) == [ws EXCEPT !.progress = value]

\* sync_progress(value): progress = max(progress, value)
SyncProgress(ws, value) == [ws EXCEPT !.progress = Max(ws.progress, value)]

\* sync_status(status)
SyncStatus(ws, status) == [ws EXCEPT !.status = status]

\* if event.payload.progress is not None: sync_progress(event.payload.progress)
FoldProgressField(ws, e) ==
    IF e.progress # NoProgress THEN SyncProgress(ws, e.progress) ELSE ws

\* The event-kind chain, with a plausible slip: an error event is counted only
\* when its text names a blocker.
FoldKindBlockerOnly(ws, e) ==
    CASE e.type \in {"progress", "status"} -> SyncStatus(ws, "running")
      [] e.type = "blocker" -> SyncStatus(ws, "blocked")
      [] e.type = "error" ->
            IF LowerContains(e.text, "blocker")
            THEN SyncStatus([ws EXCEPT !.error_count = @ + 1], "blocked")
            ELSE ws
      [] e.type = "milestone" -> SyncProgress(ws, Min(ws.progress + 20, 90))
      [] e.type = "recovery" -> SyncStatus(ws, "recovering")
      [] OTHER -> ws

\* The event-kind chain, with a plausible slip: the milestone step is capped
\* at 100.
FoldKindMilestoneTo100(ws, e) ==
    CASE e.type \in {"progress", "status"} -> SyncStatus(ws, "running")
      [] e.type = "blocker" -> SyncStatus(ws, "blocked")
      [] e.type = "error" ->
            LET counted == [ws EXCEPT !.error_count = @ + 1]
            IN  IF LowerContains(e.text, "blocker")
                THEN SyncStatus(counted, "blocked")
                ELSE counted
      [] e.type = "milestone" -> SyncProgress(ws, Min(ws.progress + 20, 100))
      [] e.type = "recovery" -> SyncStatus(ws, "recovering")
      [] OTHER -> ws

\* The event-kind chain, with a plausible slip: a progress or status event
\* does not bring a blocked or recovering worker back to running.
FoldKindStickyBlocked(ws, e) ==
    CASE e.type \in {"progress", "status"} ->
            IF ws.status \in {"blocked", "recovering"} THEN ws ELSE SyncStatus(ws, "running")
      [] e.type = "blocker" -> SyncStatus(ws, "blocked")
      [] e.type = "error" ->
            LET counted == [ws EXCEPT !.error_count = @ + 1]
            IN  IF LowerContains(e.text, "blocker")
                THEN SyncStatus(counted, "blocked")
                ELSE counted
      [] e.type = "milestone" -> SyncProgress(ws, Min(ws.progress + 20, 90))
      [] e.type = "recovery" -> SyncStatus(ws, "recovering")
      [] OTHER -> ws

\* The if/elif chain on event.type.
FoldKind(ws, e) ==
    CASE e.type \in {"progress", "status"} -> SyncStatus(ws, "running")
      [] e.type = "blocker" -> SyncStatus(ws, "blocked")
      [] e.type = "error" ->
            LET counted == [ws EXCEPT !.error_count = @ + 1]
            IN  IF LowerContains(e.text, "blocker")
                THEN SyncStatus(counted, "blocked")
                ELSE counted
      [] e.type = "milestone" -> SyncProgress(ws, Min(ws.progress + 20, 90))
      [] e.type = "recovery" -> SyncStatus(ws, "recovering")
      [] OTHER -> ws

\* "complete" in text.lower() or "done" in text.lower()
HasCompletionText(e) ==
    LowerContains(e.text, "complete") \/ LowerContains(e.text, "done")

\* The completion check, with a plausible slip: it is an elif of the kind chain,
\* so it is reached only by the kinds the chain does not handle.
FoldCompletionElif(ws, e) ==
    IF HasCompletionText(e)
       /\ e.type \notin {"progress", "status", "blocker", "error", "milestone", "recovery"}
    THEN SyncProgress(SyncStatus(ws, "completed"), 100)
    ELSE ws

\* Completion indicators, checked after the kind chain whatever the kind.
FoldCompletion(ws, e) ==
    IF HasCompletionText(e)
    THEN SyncProgress(SyncStatus(ws, "completed"), 100)
    ELSE ws

\* One turn of "for event in events" in _update_worker_states_from_events.
FoldEvent(ws, e) == FoldCompletion(FoldKind(FoldProgressField(ws, e), e), e)

\* "for event in events": the WorkerState after the whole batch.
RECURSIVE FoldBatch(_, _)
FoldBatch(ws, events) ==
    IF events = <<>> THEN ws ELSE FoldBatch(FoldEvent(ws, Head(events)), Tail(events))

\* "Update worker process status", with a plausible slip: a worker whose
\* process has ended is completed whatever its progress.
ResolveAlwaysCompleted(ws, has_worker, alive) ==
    IF has_worker /\ ~alive /\ ws.status = "running"
    THEN SyncStatus(ws, "completed")
    ELSE ws

\* "Update worker process status": has_worker is "if worker", alive is
\* worker.is_running().
Resolve(ws, has_worker, alive) ==
    IF has_worker /\ ~alive /\ ws.status = "running"
    THEN IF ws.progress >= 90 THEN SyncStatus(ws, "completed") ELSE SyncStatus(ws, "failed")
    ELSE ws

\* How many events of a batch are of one kind.
RECURSIVE CountType(_, _)
CountType(events, t) ==
    IF events = <<>> THEN 0
    ELSE (IF Head(events).type = t THEN 1 ELSE 0) + CountType(Tail(events), t)

\* ------------------------------------------------------ the recovery engine
\* PermissionRecoveryEngine.ERROR_PATTERNS, in list order.
ERROR_PATTERNS(agent) ==
    CASE agent = "gemini" ->
            <<"Path must be within one of the workspace directories",
              "File path must be within one of the workspace directories",
              "Permission denied",
              "Authentication required">>
      [] agent = "codex" ->
            <<"Not inside a trusted directory",
              "Permission denied",
              "Repository check failed",
              "not a git repository">>
      [] agent = "claude" ->
            <<"Permission denied", "Access blocked">>

\* The pattern lower-cased, as re.IGNORECASE compares it.
PatternLower(pattern) ==
    CASE pattern = "Path must be within one of the workspace directories" ->
            "path must be within one of the workspace directories"
      [] pattern = "File path must be within one of the workspace directories" ->
            "file path must be within one of the workspace directories"
      [] pattern = "Permission denied" -> "permission denied"
      [] pattern = "Authentication required" -> "authentication required"
      [] pattern = "Not inside a trusted directory" -> "not inside a trusted directory"
      [] pattern = "Repository check failed" -> "repository check failed"
      [] pattern = "not a git repository" -> "not a git repository"
      [] pattern = "Access blocked" -> "access blocked"

\* re.search(pattern, error_text, re.IGNORECASE)
Matches(pattern, text) == LowerContains(text, PatternLower(pattern))

\* "workspace directories" in pattern
PatternNamesWorkspace(pattern) ==
    pattern \in {"Path must be within one of the workspace directories",
                 "File path must be within one of the workspace directories"}

\* The if/elif chain of _detect_error_type for a pattern that matched; "none"
\* when no branch is taken and the loop goes on to the next pattern.
TagOf(pattern, text) ==
    IF Contains(text, "workspace directories") \/ PatternNamesWorkspace(pattern)
    THEN "gemini_permissions"
    ELSE IF Contains(text, "trusted directory") \/ Contains(text, "git repository")
    THEN "codex_git_check"
    ELSE IF Contains(text, "Permission denied")
    THEN "generic_permission"
    ELSE "none"

RECURSIVE DetectFrom(_, _)
DetectFrom(patterns, text) ==
    IF patterns = <<>> THEN "none"
    ELSE IF Matches(Head(patterns), text) /\ TagOf(Head(patterns), text) # "none"
    THEN TagOf(Head(patterns), text)
    ELSE DetectFrom(Tail(patterns), text)

\* _detect_error_type(agent_name, error_text); None is "none".
DetectErrorType(agent, text) == DetectFrom(ERROR_PATTERNS(agent), text)

\* The first loop of check_for_errors, with a plausible slip: the kind of the
\* event is not tested.
RECURSIVE DetectInEventsAnyKind(_, _)
DetectInEventsAnyKind(agent, events) ==
    IF events = <<>> THEN "none"
    ELSE IF DetectErrorType(agent, Head(events).text) # "none"
    THEN DetectErrorType(agent, Head(events).text)
    ELSE DetectInEventsAnyKind(agent, Tail(events))

\* The first loop of check_for_errors: the tag of the first error event that has one.
RECURSIVE DetectInEvents(_, _)
DetectInEvents(agent, events) ==
    IF events = <<>> THEN "none"
    ELSE IF Head(events).type = "error" /\ DetectErrorType(agent, Head(events).text) # "none"
    THEN DetectErrorType(agent, Head(events).text)
    ELSE DetectInEvents(agent, Tail(events))

\* The second loop of check_for_errors, over the diagnostic lines just read.
RECURSIVE DetectInLines(_, _)
DetectInLines(agent, lines) ==
    IF lines = <<>> THEN "none"
    ELSE IF DetectErrorType(agent, Head(lines)) # "none"
    THEN DetectErrorType(agent, Head(lines))
    ELSE DetectInLines(agent, Tail(lines))

\* check_for_errors(worker, events), given the diagnostic lines available.
CheckForErrors(agent, events, lines) ==
    IF DetectInEvents(agent, events) # "none"
    THEN DetectInEvents(agent, events)
    ELSE DetectInLines(agent, lines)

\* The RecoveryAction each routine records.
RecoveryAction(agent, issue, action) == [worker |-> agent, issue |-> issue, action |-> action]

\* The escalation record, with a plausible slip: it carries the action tag of
\* a relaunch.
EscalationActionAsRelaunch(agent) ==
    RecoveryAction(agent, "escalated_permission", "relaunched_with_directories")

\* The RecoveryAction _escalate_permission_issue records.
EscalationAction(agent) ==
    RecoveryAction(agent, "escalated_permission", "user_intervention_required")

\* The lines _emit_recovery_event writes to the worker's log.
RecoveryLine(action) ==
    JsonLine("recovery",
             CASE action.issue = "gemini_permissions" ->
                    "Recovery: gemini_permissions - relaunched_with_directories"
               [] action.issue = "codex_git_check" ->
                    "Recovery: codex_git_check - relaunched_with_skip_flag"
               [] OTHER ->
                    "Recovery: escalated_permission - user_intervention_required",
             NoProgress)

BlockerLine ==
    JsonLine("permission_blocker", "Permission blocker: Generic permission error", NoProgress)

\* ---------------------------------------------------------- the review engine
\* should_trigger_review's scan, with a plausible slip: only the kinds are
\* tested, not the text.
RECURSIVE EventsTriggerKindOnly(_)
EventsTriggerKindOnly(events) ==
    IF events = <<>> THEN FALSE
    ELSE \/ Head(events).type \in {"milestone", "blocker"}
         \/ EventsTriggerKindOnly(Tail(events))

\* should_trigger_review's scan of one worker's pending events.
RECURSIVE EventsTrigger(_)
EventsTrigger(events) ==
    IF events = <<>> THEN FALSE
    ELSE \/ Head(events).type \in {"milestone", "blocker"}
         \/ LowerContains(Head(events).text, "review")
         \/ EventsTrigger(Tail(events))

\* should_trigger_review(events, force); last is last_review_time seen from now:
\* "none" (no review yet), "recent" or "overdue" (more than 15 minutes ago).
\* "none_late" is None as well, in a session started more than 15 minutes ago.
ShouldTriggerReview(keys, events, force, last) ==
    \/ force
    \/ \E i \in 1..Len(keys) : EventsTrigger(events[keys[i]])
    \/ last = "overdue"

\* _simulate_review_response's verdict, with a plausible slip: two errors are
\* not enough for concerns.
SimulateVerdictThreeErrors(target_events) ==
    LET errors == CountType(target_events, "error")
        blockers == CountType(target_events, "blocker")
    IN  IF blockers > 0 THEN "blocker"
        ELSE IF errors >= 3 THEN "concerns"
        ELSE "approved"

\* _simulate_review_response: the verdict drawn from the target's events.
SimulateVerdict(target_events) ==
    LET errors == CountType(target_events, "error")
        blockers == CountType(target_events, "blocker")
    IN  IF blockers > 0 THEN "blocker"
        ELSE IF errors >= 3 THEN "concerns"
        ELSE IF errors > 0 THEN (IF errors >= 2 THEN "concerns" ELSE "approved")
        ELSE "approved"

\* A PeerReview as the decision tree reads it: without its lists of issues
\* and recommendations.
PeerReview(reviewer, target, verdict) ==
    [reviewer |-> reviewer, target |-> target, verdict |-> verdict]

\* [e.payload.text for e in target_events if e.type == t]
TextsOfType(target_events, t) ==
    LET chosen == SelectSeq(target_events, LAMBDA e : e.type = t)
    IN  [i \in 1..Len(chosen) |-> chosen[i].text]

\* texts[:n]
FirstOf(texts, n) == SubSeq(texts, 1, Min(n, Len(texts)))

\* _simulate_review_response: the issues listed in the review.
SimulateIssues(target_events) ==
    LET errors == TextsOfType(target_events, "error")
        blockers == TextsOfType(target_events, "blocker")
    IN  IF Len(blockers) > 0 THEN FirstOf(blockers, 3)
        ELSE IF Len(errors) >= 3 THEN FirstOf(errors, 3)
        ELSE IF Len(errors) > 0 /\ Len(errors) >= 2 THEN errors
        ELSE <<>>

\* _simulate_review_response(reviewer, target, target_events): the review
\* with its issues.
SimulateReviewResponse(reviewer, target, target_events) ==
    [reviewer |-> reviewer, target |-> target,
     verdict |-> SimulateVerdict(target_events),
     issues |-> SimulateIssues(target_events)]

\* all_events.get(target, [])
EventsOf(keys, events, target) ==
    IF \E i \in 1..Len(keys) : keys[i] = target THEN events[target] ELSE <<>>

\* The three review requests of conduct_peer_review, in order; registered is
\* worker_manager.workers at the time of the call.
CollectReviews(registered, keys, events) ==
    (IF "gemini" \in registered /\ "claude" \in registered
     THEN <<PeerReview("gemini", "claude", SimulateVerdict(EventsOf(keys, events, "claude")))>>
     ELSE <<>>)
    \o
    (IF "codex" \in registered /\ "gemini" \in registered
     THEN <<PeerReview("codex", "gemini", SimulateVerdict(EventsOf(keys, events, "gemini")))>>
     ELSE <<>>)
    \o
    (IF "codex" \in registered /\ "claude" \in registered
     THEN <<PeerReview("codex", "claude", SimulateVerdict(EventsOf(keys, events, "claude")))>>
     ELSE <<>>)

\* len([r for r in reviews if r.verdict == v])
RECURSIVE CountVerdict(_, _)
CountVerdict(reviews, v) ==
    IF reviews = <<>> THEN 0
    ELSE (IF Head(reviews).verdict = v THEN 1 ELSE 0) + CountVerdict(Tail(reviews), v)

Decision(action, reason) == [action |-> action, reason |-> reason]

\* The decision tree, with a plausible slip: the blocker rule looks at the first
\* review only.
EvaluateReviewsFirstOnly(reviews) ==
    IF reviews # <<>> /\ Head(reviews).verdict = "blocker"
    THEN Decision("STOP_AND_ESCALATE", "blocker(s) detected")
    ELSE IF CountVerdict(reviews, "concerns") >= 2
    THEN Decision("PAUSE_AND_CLARIFY", "Majority have concerns")
    ELSE IF CountVerdict(reviews, "concerns") = 1
    THEN Decision("LOG_WARNING", "One agent has concerns")
    ELSE IF CountVerdict(reviews, "approved") = Len(reviews)
    THEN Decision("CONTINUE", "All reviews positive")
    ELSE Decision("LOG_WARNING", "Mixed or unclear review results")

\* ReviewEngine.evaluate_reviews: the decision it returns.
EvaluateReviews(reviews) ==
    IF CountVerdict(reviews, "blocker") > 0
    THEN Decision("STOP_AND_ESCALATE", "blocker(s) detected")
    ELSE IF CountVerdict(reviews, "concerns") >= 2
    THEN Decision("PAUSE_AND_CLARIFY", "Majority have concerns")
    ELSE IF CountVerdict(reviews, "concerns") = 1
    THEN Decision("LOG_WARNING", "One agent has concerns")
    ELSE IF CountVerdict(reviews, "approved") = Len(reviews)
    THEN Decision("CONTINUE", "All reviews positive")
    ELSE Decision("LOG_WARNING", "Mixed or unclear review results")

\* The decisions after which conduct_peer_review calls pause(), with a plausible
\* slip: the pause-and-clarify branch only logs.
PausingActionsStopOnly == {"STOP_AND_ESCALATE"}

\* The decisions after which conduct_peer_review calls self.pause().
PausingActions == {"STOP_AND_ESCALATE", "PAUSE_AND_CLARIFY"}

\* ------------------------------------------------------------------- state
VARIABLES
    workers,            \* the roles registered in worker_manager.workers
    session_workers,    \* the roles that have a WorkerState in session.workers
    wstate,             \* role -> WorkerState
    proc,               \* role -> "none" | "running" | "exited": worker.process
    log_len,            \* role -> number of lines in <role>.jsonl
    unread,             \* role -> the lines of <role>.jsonl past the saved offset
    offset,             \* role -> worker._stdout_offset, counted in lines (lines of one length)
    stderr,             \* role -> unread lines of the process's diagnostic stream
    skip_git_check,     \* role -> worker.skip_git_check
    dir_access,         \* required directory -> "missing" | "denied" | "ok"
    is_running,         \* Coordinator.is_running
    is_paused,          \* Coordinator.is_paused
    is_complete,        \* session.is_complete
    pc,                 \* where the monitoring loop is
    ev_keys,            \* the keys of monitor_loop's all_events, in dict order
    all_events,         \* role -> the events of all_events
    idx,                \* position of the running for-loop in ev_keys
    pos,                \* events of the current batch folded so far (event-wise folding)
    rec_issue,          \* the issue tag of the relaunch in progress
    decisions,          \* session.decisions
    engine_decisions,   \* review_engine.decisions
    recovery_actions,   \* session.recovery_actions
    engine_actions,     \* recovery_engine.recovery_actions
    last_review_time,   \* "none" | "none_late" | "recent" | "overdue"
    round_reviews,      \* the reviews of the latest review round
    session_reviews,    \* session.reviews, the review log of the session
    env_steps,          \* steps of the environment so far
    resumed             \* resume() was called on a paused coordinator, no pause since

vars ==
    <<workers, session_workers, wstate, proc, skip_git_check, dir_access, log_len, unread, offset, stderr,
      is_running, is_paused, is_complete, pc, ev_keys, all_events, idx, pos,
      rec_issue, decisions, engine_decisions, recovery_actions, engine_actions,
      last_review_time, round_reviews, session_reviews, env_steps, resumed>>

loop_locals == <<ev_keys, all_events, idx, rec_issue>>

flags == <<is_running, is_paused, is_complete>>

review_state == <<decisions, engine_decisions, last_review_time, round_reviews, session_reviews>>

recovery_logs == <<recovery_actions, engine_actions>>

files == <<log_len, unread, offset, stderr>>

NoEvents == [r \in AgentName |-> <<>>]

\* required_dirs of prepare_worker_environment, in the order of the list.
RequiredDirs == <<"workspace_dir", "target_project_dir", "orchestrator_dir">>

DirName == {RequiredDirs[i] : i \in 1..Len(RequiredDirs)}

\* Every required directory exists and os.access(dir, R_OK | W_OK) holds.
DirsAccessible == [d \in DirName |-> "ok"]

\* ------------------------------------------------- what the workers may write
\* The failure text a worker of each role is given to write.
SignatureText(r) ==
    CASE r = "gemini" -> "Path must be within one of the workspace directories"
      [] r = "codex" -> "Not inside a trusted directory"
      [] r = "claude" -> "Permission denied"

\* The lines a worker process appends to its log.
WorkerLines(r) ==
    {JsonLine("progress", "Working...", 40),
     JsonLine("status", "All tasks DONE", NoProgress),
     JsonLine("blocker", "Blocked on X", NoProgress),
     JsonLine("error", SignatureText(r), NoProgress),
     BadLine("{bad")}

\* The lines a worker process writes to its diagnostic stream.
StderrLines(r) == {SignatureText(r)}

\* --------------------------------------------------------------- construction
\* WorkerManager.__init__ and SessionState: no worker yet.
NoWorkers ==
    /\ workers = {}
    /\ session_workers = {}
    /\ wstate = [r \in AgentName |-> WorkerState("idle", 0, 0)]
    /\ proc = [r \in AgentName |-> "none"]
    /\ skip_git_check = [r \in AgentName |-> TRUE]
    /\ dir_access = DirsAccessible

\* No log written, nothing read.
EmptyFiles ==
    /\ log_len = [r \in AgentName |-> 0]
    /\ unread = [r \in AgentName |-> <<>>]
    /\ offset = [r \in AgentName |-> 0]
    /\ stderr = [r \in AgentName |-> <<>>]

\* Coordinator.__init__: is_running = False, is_paused = False.
FlagsDown ==
    /\ is_running = FALSE
    /\ is_paused = FALSE
    /\ is_complete = FALSE
    /\ resumed = FALSE

\* The monitoring loop has not ingested anything.
NoLoopLocals ==
    /\ ev_keys = <<>>
    /\ all_events = NoEvents
    /\ idx = 1
    /\ pos = 0
    /\ rec_issue = "none"

\* ReviewEngine.__init__, PermissionRecoveryEngine.__init__, SessionState.
EmptyRecords ==
    /\ decisions = <<>>
    /\ engine_decisions = <<>>
    /\ recovery_actions = <<>>
    /\ engine_actions = <<>>
    /\ session_reviews = <<>>
    /\ last_review_time = "none"
    /\ env_steps = 0

\* Coordinator.__init__
Init ==
    /\ NoWorkers
    /\ EmptyFiles
    /\ FlagsDown
    /\ NoLoopLocals
    /\ EmptyRecords
    /\ round_reviews = <<>>
    /\ pc = "init"

\* ------------------------------------------------------------ worker processes
\* WorkerProcess.is_running()
IsRunning(r) == proc[r] = "running"

\* WorkerProcess.stop(), with a plausible slip: the process is left as it is.
StoppedProcKept(p) == p

\* WorkerProcess.stop(): terminate (kill after the grace period), then
\* state.status = IDLE.
StoppedProc(p) == IF p = "running" THEN "exited" ELSE p

\* One more line at the end of <role>.jsonl.  Only the lines past the saved
\* offset can ever be read (the offset never moves back), so the file is kept as
\* its length and those lines.
AppendLine(r, line) ==
    /\ log_len' = [log_len EXCEPT ![r] = @ + 1]
    /\ unread' = [unread EXCEPT ![r] = IF log_len[r] + 1 > offset[r] THEN Append(@, line) ELSE @]

\* launch_all_workers: each launch_worker call either registers a launched worker
\* or raises (Popen fails) and is logged; launched is the set that succeeded.
LaunchAllWorkers ==
    /\ pc = "init"
    /\ \E launched \in SUBSET AgentName :
        /\ workers' = launched
        /\ session_workers' = launched
        /\ proc' = [r \in AgentName |-> IF r \in launched THEN "running" ELSE "none"]
        /\ wstate' = [r \in AgentName |->
                        IF r \in launched THEN WorkerState("running", 0, 0) ELSE wstate[r]]
    /\ pc' = "launched"
    /\ UNCHANGED <<pos, skip_git_check, dir_access, files, flags, loop_locals, review_state, recovery_logs, env_steps,
                   resumed>>

\* A worker process writes one line to its redirected standard output.
WorkerWrite(r) ==
    /\ IsRunning(r)
    /\ env_steps < MaxEnvSteps
    /\ \E line \in WorkerLines(r) : AppendLine(r, line)
    /\ env_steps' = env_steps + 1
    /\ UNCHANGED <<pos, skip_git_check, dir_access, workers, session_workers, wstate, proc, offset, stderr, flags, pc,
                   loop_locals, review_state, recovery_logs, resumed>>

\* A worker process writes one line to its diagnostic stream.
WorkerStderr(r) ==
    /\ IsRunning(r)
    /\ env_steps < MaxEnvSteps
    /\ \E line \in StderrLines(r) : stderr' = [stderr EXCEPT ![r] = Append(@, line)]
    /\ env_steps' = env_steps + 1
    /\ UNCHANGED <<pos, skip_git_check, dir_access, workers, session_workers, wstate, proc, log_len, unread, offset, flags,
                   pc, loop_locals, review_state, recovery_logs, resumed>>

\* A worker process exits on its own.
WorkerExit(r) ==
    /\ IsRunning(r)
    /\ proc' = [proc EXCEPT ![r] = "exited"]
    /\ UNCHANGED <<pos, skip_git_check, dir_access, workers, session_workers, wstate, files, flags, pc, loop_locals,
                   review_state, recovery_logs, env_steps, resumed>>

\* More than 15 minutes pass since the last review.
Tick ==
    /\ last_review_time = "recent"
    /\ env_steps < MaxEnvSteps
    /\ last_review_time' = "overdue"
    /\ env_steps' = env_steps + 1
    /\ UNCHANGED <<pos, skip_git_check, dir_access, workers, session_workers, wstate, proc, files, flags, pc, loop_locals,
                   decisions, engine_decisions, round_reviews, session_reviews, recovery_logs, resumed>>

\* ------------------------------------------------------------- event ingestion
\* The keys of a dict filled in launch order.
KeysOf(registered) == SelectSeq(LaunchOrder, LAMBDA r : r \in registered)

\* WorkerProcess.read_events(): the events returned.
ReadEvents(r) == ParseLines(unread[r])

\* WorkerProcess.read_events(): f.tell() after the read; a seek past the end of
\* the file stays where it is.
NewOffset(r) == Max(offset[r], log_len[r])

\* WorkerManager.get_all_events(): the events per registered worker.
GetAllEvents == [r \in AgentName |-> IF r \in workers THEN ReadEvents(r) ELSE <<>>]

\* WorkerManager.get_all_events(): what it leaves in the workers.
AdvanceOffsets ==
    /\ offset' = [r \in AgentName |-> IF r \in workers THEN NewOffset(r) ELSE offset[r]]
    /\ unread' = [r \in AgentName |-> IF r \in workers THEN <<>> ELSE unread[r]]

\* conduct_peer_review, with a plausible slip: a round without reviews records
\* no decision.
ConductPeerReviewQuietWhenEmpty(keys, events) ==
    LET reviews == CollectReviews(workers, keys, events)
        decision == EvaluateReviews(reviews)
    IN  /\ round_reviews' = reviews
        /\ UNCHANGED session_reviews
        /\ IF reviews # <<>>
           THEN /\ engine_decisions' = Append(engine_decisions, decision)
                /\ last_review_time' = "recent"
                /\ decisions' = Append(decisions, decision)
                /\ is_paused' = (IF decision.action \in PausingActions THEN TRUE ELSE is_paused)
                /\ resumed' = (IF decision.action \in PausingActions THEN FALSE ELSE resumed)
           ELSE UNCHANGED <<decisions, engine_decisions, last_review_time, is_paused, resumed>>

\* ------------------------------------------------------------- the review round
\* Coordinator.conduct_peer_review(all_events), evaluate_reviews included.
ConductPeerReview(keys, events) ==
    LET reviews == CollectReviews(workers, keys, events)
        decision == EvaluateReviews(reviews)
    IN  /\ round_reviews' = reviews
        /\ UNCHANGED session_reviews
        /\ IF reviews # <<>>
           THEN /\ engine_decisions' = Append(engine_decisions, decision)
                /\ last_review_time' = "recent"
                /\ decisions' = Append(decisions, decision)
                /\ is_paused' = (IF decision.action \in PausingActions THEN TRUE ELSE is_paused)
                /\ resumed' = (IF decision.action \in PausingActions THEN FALSE ELSE resumed)
           ELSE /\ decisions' = Append(decisions, Decision("CONTINUE", "No reviews to evaluate"))
                /\ UNCHANGED <<engine_decisions, last_review_time, is_paused, resumed>>

\* ------------------------------------------------------------ check_completion
TerminalStatus == {"completed", "failed"}

\* Coordinator.check_completion()
CheckCompletion ==
    /\ session_workers # {}
    /\ \A r \in session_workers :
          wstate[r].status \notin TerminalStatus => ~(r \in workers /\ IsRunning(r))

\* ------------------------------------------------------------ the monitoring loop
\* monitor_loop is entered: is_running = True.
MonitorStart ==
    /\ pc = "launched"
    /\ is_running' = TRUE
    /\ pc' = "while"
    /\ UNCHANGED <<pos, skip_git_check, dir_access, workers, session_workers, wstate, proc, files, is_paused, is_complete,
                   loop_locals, review_state, recovery_logs, env_steps, resumed>>

\* while self.is_running and not self.is_paused; the loop is left otherwise.
WhileCheck ==
    /\ pc = "while"
    /\ pc' = (IF is_running /\ ~is_paused THEN "ingest" ELSE "ended")
    /\ UNCHANGED <<pos, skip_git_check, dir_access, workers, session_workers, wstate, proc, files, flags, loop_locals,
                   review_state, recovery_logs, env_steps, resumed>>

\* all_events = self.worker_manager.get_all_events()
Ingest ==
    /\ pc = "ingest"
    /\ ev_keys' = KeysOf(workers)
    /\ all_events' = GetAllEvents
    /\ AdvanceOffsets
    /\ idx' = 1
    /\ pc' = (IF workers = {} THEN "review" ELSE "update")
    /\ UNCHANGED <<pos, skip_git_check, dir_access, workers, session_workers, wstate, proc, log_len, stderr, flags,
                   rec_issue, review_state, recovery_logs, env_steps, resumed>>

\* The body of _update_worker_states_from_events for one worker: a role the
\* session does not hold is skipped; else its events are folded in order and its
\* status reconciled with the process.
UpdatedState(r) ==
    IF r \notin session_workers
    THEN wstate[r]
    ELSE Resolve(FoldBatch(wstate[r], all_events[r]), r \in workers, IsRunning(r))

UpdateWorker ==
    /\ pc = "update"
    /\ wstate' = [wstate EXCEPT ![ev_keys[idx]] = UpdatedState(ev_keys[idx])]
    /\ pc' = (IF idx = Len(ev_keys) THEN "recover" ELSE "update")
    /\ idx' = (IF idx = Len(ev_keys) THEN 1 ELSE idx + 1)
    /\ UNCHANGED <<pos, skip_git_check, dir_access, workers, session_workers, proc, files, flags, ev_keys, all_events,
                   rec_issue, review_state, recovery_logs, env_steps, resumed>>

\* The recovery for-loop moves to the next worker, or the loop body goes on.
RecoverAdvance ==
    /\ pc' = (IF idx = Len(ev_keys) THEN "review" ELSE "recover")
    /\ idx' = (IF idx = Len(ev_keys) THEN 1 ELSE idx + 1)

\* read_stderr_lines() returns: select() with a zero timeout finds nothing to
\* read and the call returns at once, or it finds something and readline() is
\* called until it returns the empty string, which a pipe does at end of file
\* only, when the process has closed its diagnostic stream.
StderrReadReturns(r) == stderr[r] = <<>> \/ ~IsRunning(r)

\* One turn of the recovery for-loop of monitor_loop: get_worker,
\* check_for_errors and, on a tag, attempt_recovery up to worker.stop() for the
\* two relaunching routines, or the whole escalation.  check_for_errors reads
\* the diagnostic stream when the events carry no tag, and the turn goes on
\* when that read returns.
RecoverStep ==
    /\ pc = "recover"
    /\ LET r == ev_keys[idx]
       IN  (r \in workers /\ DetectInEvents(r, all_events[r]) = "none") => StderrReadReturns(r)
    /\ LET r == ev_keys[idx]
           in_events == DetectInEvents(r, all_events[r])
           tag == CheckForErrors(r, all_events[r], stderr[r])
       IN  IF r \notin workers
           THEN /\ RecoverAdvance
                /\ UNCHANGED <<wstate, proc, log_len, unread, stderr, rec_issue,
                               recovery_logs>>
           ELSE /\ stderr' = (IF in_events # "none" THEN stderr ELSE [stderr EXCEPT ![r] = <<>>])
                /\ CASE tag \in {"gemini_permissions", "codex_git_check"} ->
                            /\ proc' = [proc EXCEPT ![r] = StoppedProc(@)]
                            /\ wstate' = [wstate EXCEPT ![r] = SyncStatus(@, "idle")]
                            /\ rec_issue' = tag
                            /\ pc' = "relaunch"
                            /\ UNCHANGED <<idx, log_len, unread, recovery_logs>>
                     [] tag = "generic_permission" ->
                            LET action == EscalationAction(r)
                            IN  /\ engine_actions' = Append(engine_actions, action)
                                /\ log_len' = [log_len EXCEPT ![r] = @ + 2]
                                /\ unread' = [unread EXCEPT ![r] = @ \o
                                     (IF log_len[r] + 1 > offset[r] THEN <<BlockerLine>> ELSE <<>>)
                                     \o (IF log_len[r] + 2 > offset[r]
                                         THEN <<RecoveryLine(action)>> ELSE <<>>)]
                                /\ recovery_actions' = Append(recovery_actions, action)
                                /\ RecoverAdvance
                                /\ UNCHANGED <<wstate, proc, rec_issue>>
                     [] OTHER ->
                            /\ RecoverAdvance
                            /\ UNCHANGED <<wstate, proc, log_len, unread, rec_issue,
                                           recovery_logs>>
    /\ UNCHANGED <<pos, skip_git_check, dir_access, workers, session_workers, offset, flags, ev_keys, all_events,
                   review_state, env_steps, resumed>>

\* The rest of _fix_gemini_permissions / _fix_codex_permissions: worker.launch()
\* (the log is opened for writing, which empties it, a new process is started,
\* status = RUNNING), the RecoveryAction recorded, the recovery event written,
\* the action appended to the session.
Relaunch ==
    /\ pc = "relaunch"
    /\ LET r == ev_keys[idx]
           action == RecoveryAction(r, rec_issue,
                                    IF rec_issue = "gemini_permissions"
                                    THEN "relaunched_with_directories"
                                    ELSE "relaunched_with_skip_flag")
       IN  /\ skip_git_check' = [skip_git_check EXCEPT ![r] =
                                    IF rec_issue = "codex_git_check" THEN TRUE ELSE @]
           /\ proc' = [proc EXCEPT ![r] = "running"]
           /\ wstate' = [wstate EXCEPT ![r] = SyncStatus(@, "running")]
           /\ stderr' = [stderr EXCEPT ![r] = <<>>]
           /\ log_len' = [log_len EXCEPT ![r] = 1]
           /\ unread' = [unread EXCEPT ![r] =
                            IF 1 > offset[r] THEN <<RecoveryLine(action)>> ELSE <<>>]
           /\ engine_actions' = Append(engine_actions, action)
           /\ recovery_actions' = Append(recovery_actions, action)
    /\ rec_issue' = "none"
    /\ RecoverAdvance
    /\ UNCHANGED <<pos, dir_access, workers, session_workers, offset, flags, ev_keys, all_events,
                   review_state, env_steps, resumed>>

\* if self.review_engine.should_trigger_review(all_events): conduct_peer_review
ReviewStep ==
    /\ pc = "review"
    /\ IF ShouldTriggerReview(ev_keys, all_events, FALSE, last_review_time)
       THEN ConductPeerReview(ev_keys, all_events)
       ELSE UNCHANGED <<review_state, is_paused, resumed>>
    /\ pc' = "check"
    /\ UNCHANGED <<pos, skip_git_check, dir_access, workers, session_workers, wstate, proc, files, is_running, is_complete,
                   loop_locals, recovery_logs, env_steps>>

\* if self.check_completion(): the session is complete and the loop is left;
\* else time.sleep(5) and back to the loop condition.
CheckStep ==
    /\ pc = "check"
    /\ IF CheckCompletion
       THEN /\ is_running' = FALSE
            /\ is_complete' = TRUE
            /\ pc' = "ended"
       ELSE /\ pc' = "while"
            /\ UNCHANGED <<is_running, is_complete>>
    /\ ev_keys' = <<>>
    /\ all_events' = NoEvents
    /\ UNCHANGED <<pos, skip_git_check, dir_access, workers, session_workers, wstate, proc, files, is_paused, idx,
                   rec_issue, review_state, recovery_logs, env_steps, resumed>>

\* ------------------------------------------------------------ the control surface
\* Coordinator.pause()
Pause ==
    /\ pc # "init"
    /\ is_paused' = TRUE
    /\ resumed' = FALSE
    /\ UNCHANGED <<pos, skip_git_check, dir_access, workers, session_workers, wstate, proc, files, is_running, is_complete,
                   pc, loop_locals, review_state, recovery_logs, env_steps>>

\* Coordinator.resume()
Resume ==
    /\ pc # "init"
    /\ is_paused' = FALSE
    /\ resumed' = (resumed \/ is_paused)
    /\ UNCHANGED <<pos, skip_git_check, dir_access, workers, session_workers, wstate, proc, files, is_running, is_complete,
                   pc, loop_locals, review_state, recovery_logs, env_steps>>

\* stop() has been called: stop_all() has emptied a registry that held workers.
StopCalled == session_workers # {} /\ workers = {}

\* Coordinator.stop(): is_running = False, then WorkerManager.stop_all() stops
\* every registered worker and clears the registry.
Stop ==
    /\ pc # "init"
    /\ is_running' = FALSE
    /\ proc' = [r \in AgentName |-> IF r \in workers THEN StoppedProc(proc[r]) ELSE proc[r]]
    /\ wstate' = [r \in AgentName |->
                    IF r \in workers THEN SyncStatus(wstate[r], "idle") ELSE wstate[r]]
    /\ workers' = {}
    /\ UNCHANGED <<pos, skip_git_check, dir_access, session_workers, files, is_paused, is_complete, pc, loop_locals,
                   review_state, recovery_logs, env_steps, resumed>>

\* server.trigger_review: get_all_events(), then conduct_peer_review.
TriggerReview ==
    /\ pc # "init"
    /\ env_steps < MaxEnvSteps
    /\ AdvanceOffsets
    /\ ConductPeerReview(KeysOf(workers), GetAllEvents)
    /\ env_steps' = env_steps + 1
    /\ UNCHANGED <<pos, skip_git_check, dir_access, workers, session_workers, wstate, proc, log_len, stderr, is_running,
                   is_complete, pc, loop_locals, recovery_logs>>

\* server.event_stream: one turn of the stream's polling loop calls
\* get_all_events() and sends what it returns to the client.
EventStreamPoll ==
    /\ pc # "init"
    /\ env_steps < MaxEnvSteps
    /\ AdvanceOffsets
    /\ env_steps' = env_steps + 1
    /\ UNCHANGED <<pos, skip_git_check, dir_access, workers, session_workers, wstate, proc, log_len,
                   stderr, flags, pc, loop_locals, review_state, recovery_logs, resumed>>

\* ------------------------------------------------------------------ the system
Next ==
    \/ LaunchAllWorkers
    \/ MonitorStart
    \/ WhileCheck
    \/ Ingest
    \/ UpdateWorker
    \/ RecoverStep
    \/ Relaunch
    \/ ReviewStep
    \/ CheckStep
    \/ Pause
    \/ Resume
    \/ Stop
    \/ TriggerReview
    \/ EventStreamPoll
    \/ Tick
    \/ \E r \in AgentName : WorkerWrite(r)
    \/ \E r \in AgentName : WorkerStderr(r)
    \/ \E r \in AgentName : WorkerExit(r)

Spec == Init /\ [][Next]_vars

\* ------------------------------------------------ evaluate_reviews on its own
\* The lists of peer reviews evaluate_reviews is given: any verdicts, in any
\* order, up to MaxReviews of them.
ReviewLists ==
    UNION {[1..n -> {PeerReview("gemini", "claude", v) : v \in Verdict}] : n \in 0..MaxReviews}

InitEval ==
    /\ NoWorkers
    /\ EmptyFiles
    /\ FlagsDown
    /\ NoLoopLocals
    /\ EmptyRecords
    /\ round_reviews \in ReviewLists
    /\ pc = "eval"

\* ReviewEngine.evaluate_reviews(round_reviews): the decision is appended to the
\* engine's log and the time of the review is recorded.
EvaluateCall ==
    /\ pc = "eval"
    /\ engine_decisions' = Append(engine_decisions, EvaluateReviews(round_reviews))
    /\ last_review_time' = "recent"
    /\ pc' = "evaluated"
    /\ UNCHANGED <<workers, session_workers, wstate, proc, skip_git_check, dir_access, files, flags,
                   loop_locals, pos, decisions, round_reviews, session_reviews, recovery_logs, env_steps,
                   resumed>>

NextEval == EvaluateCall

SpecEval == InitEval /\ [][NextEval]_vars

\* The rearrangements of a list.
Rearrangements(seq) ==
    {[i \in 1..Len(seq) |-> seq[f[i]]] :
        f \in {g \in [1..Len(seq) -> 1..Len(seq)] :
                 \A i, j \in 1..Len(seq) : g[i] = g[j] => i = j}}

\* How many reviews of a list carry a verdict.
VerdictCount(reviews, v) == Cardinality({i \in 1..Len(reviews) : reviews[i].verdict = v})

\* C1: for every list of peer verdicts, evaluate_reviews decides
\* stop-and-escalate when at least one is a blocker; else pause-and-clarify when
\* at least two are concerns; else log-warning when exactly one is concerns; else
\* continue when all are approved; and every rearrangement of the list is
\* decided the same way.
C1_DecisionByCounts ==
    pc = "evaluated" =>
        LET action == engine_decisions[Len(engine_decisions)].action
            nb == VerdictCount(round_reviews, "blocker")
            nc == VerdictCount(round_reviews, "concerns")
            na == VerdictCount(round_reviews, "approved")
        IN  /\ nb >= 1 => action = "STOP_AND_ESCALATE"
            /\ (nb = 0 /\ nc >= 2) => action = "PAUSE_AND_CLARIFY"
            /\ (nb = 0 /\ nc = 1) => action = "LOG_WARNING"
            /\ (nb = 0 /\ nc = 0 /\ na = Len(round_reviews)) => action = "CONTINUE"
            /\ \A p \in Rearrangements(round_reviews) : EvaluateReviews(p).action = action

\* C1 witness: a list with a blocker that is not first and two concerns has been
\* evaluated.
C1_Witness ==
    /\ pc = "evaluated"
    /\ Len(round_reviews) = 4
    /\ round_reviews[1].verdict = "concerns"
    /\ round_reviews[2].verdict = "concerns"
    /\ round_reviews[4].verdict = "blocker"
    /\ engine_decisions[Len(engine_decisions)].action = "STOP_AND_ESCALATE"

\* ------------------------------------------------------------ pause and resume
\* C2: after pause() then resume(), with no stop() since and a worker still
\* alive, the monitoring loop is still iterating (so that what a worker writes
\* from then on is ingested and folded): it has not been left.
C2_LoopSurvivesPause ==
    (/\ resumed
     /\ ~is_paused
     /\ is_running
     /\ \E r \in workers : IsRunning(r))
        => pc # "ended"

\* ------------------------------------------------------- one review round
\* The events a batch holds when the loop reaches its review step.
RoundEvents ==
    {Event("error", "Malformed JSON: {bad", NoProgress),
     Event("blocker", "Blocked on X", NoProgress),
     Event("status", "Please review", NoProgress)}

\* The batches of up to MaxBatch such events.
RoundBatches == UNION {[1..n -> RoundEvents] : n \in 0..MaxBatch}

\* The monitoring loop at its review step: each launched worker has written a
\* batch, the batch was ingested and folded, and no recovery applied.
InitRound ==
    \E launched \in SUBSET AgentName :
      \E batch \in [AgentName -> RoundBatches] :
        /\ \A r \in AgentName \ launched : batch[r] = <<>>
        /\ workers = launched
        /\ session_workers = launched
        /\ proc = [r \in AgentName |-> IF r \in launched THEN "running" ELSE "none"]
        /\ wstate = [r \in AgentName |->
                       IF r \in launched
                       THEN FoldBatch(WorkerState("running", 0, 0), batch[r])
                       ELSE WorkerState("idle", 0, 0)]
        /\ skip_git_check = [r \in AgentName |-> TRUE]
        /\ dir_access = DirsAccessible
        /\ log_len = [r \in AgentName |-> Len(batch[r])]
        /\ offset = [r \in AgentName |-> Len(batch[r])]
        /\ unread = [r \in AgentName |-> <<>>]
        /\ stderr = [r \in AgentName |-> <<>>]
        /\ is_running = TRUE
        /\ is_paused = FALSE
        /\ is_complete = FALSE
        /\ resumed = FALSE
        /\ ev_keys = KeysOf(launched)
        /\ all_events = batch
        /\ idx = 1
        /\ pos = 0
        /\ rec_issue = "none"
        /\ EmptyRecords
        /\ round_reviews = <<>>
        /\ pc = "review"

NextRound ==
    \/ ReviewStep
    \/ TriggerReview
    \/ Pause

SpecRound == InitRound /\ [][NextRound]_vars

C4_NoLiveWorkerAfterStop ==
    (StopCalled /\ pc = "ended") => \A r \in AgentName : ~IsRunning(r)

\* ------------------------------------------------------------- completion
\* C5: with every worker of a non-empty session still registered, when the loop
\* reaches its completion check, check_completion is true if and only if every
\* worker's status is completed or failed and no worker process is alive.
C5_CompleteIffAllTerminal ==
    (pc = "check" /\ session_workers # {} /\ workers = session_workers) =>
        (CheckCompletion <=>
            \A r \in session_workers :
                wstate[r].status \in TerminalStatus /\ ~IsRunning(r))

\* ---------------------------------------------------------------- progress
\* C6: whatever step is taken (a polling iteration's state update, a recovery's
\* stop or relaunch, a control call), no worker's progress decreases.
C6_ProgressNeverDecreases ==
    [][\A r \in AgentName : wstate'[r].progress >= wstate[r].progress]_vars

\* C6 witness: a worker that had reached progress 100 was later folded back to
\* running by an event reporting less, and still has progress 100.
C6_Witness ==
    \E r \in session_workers :
        /\ wstate[r].progress = 100
        /\ wstate[r].status = "running"
        /\ recovery_actions = <<>>
        /\ pc = "recover"

\* -------------------------------------------------------------- error count
\* C7: no step lowers a worker's error_count, and the state-update pass of a
\* worker raises it by exactly the number of error events in the worker's batch,
\* the error events made from malformed lines included.
C7_ErrorCountFollowsBatch ==
    [][/\ \A r \in AgentName : wstate'[r].error_count >= wstate[r].error_count
       /\ (UpdateWorker /\ ev_keys[idx] \in session_workers) =>
             wstate'[ev_keys[idx]].error_count =
                wstate[ev_keys[idx]].error_count
                    + Cardinality({i \in 1..Len(all_events[ev_keys[idx]]) :
                                     all_events[ev_keys[idx]][i].type = "error"})]_vars

\* C7 witness: a batch of a malformed line and an error event has been folded
\* into a worker that now counts two errors.
C7_Witness ==
    \E r \in session_workers :
        /\ pc = "recover"
        /\ Len(all_events[r]) = 2
        /\ all_events[r][1].text = "Malformed JSON: {bad"
        /\ all_events[r][2].type = "error"
        /\ wstate[r].error_count = 2

\* ------------------------------------------- one state-update pass, event by event
\* The worker whose pass is followed event by event.
FoldRole == "gemini"

\* The lines of the batch the pass reads.
FoldLines ==
    {JsonLine("progress", "Working...", 40),
     JsonLine("progress", "Working...", 90),
     JsonLine("status", "All tasks DONE", NoProgress),
     JsonLine("blocker", "Major phase complete", NoProgress),
     JsonLine("blocker", "Blocked on X", NoProgress),
     JsonLine("error", "Found a blocker", NoProgress),
     JsonLine("milestone", "Working...", NoProgress),
     JsonLine("recovery", "Recovery: gemini_permissions - relaunched_with_directories",
              NoProgress),
     BadLine("{bad"),
     JsonLine("status", "Working...", NoProgress),
     JsonLine("milestone", "Major phase complete", NoProgress),
     JsonLine("error", "BLOCKER raised", NoProgress),
     JsonLine("finding", "Working...", NoProgress),
     JsonLine("task", "Working...", NoProgress),
     JsonLine("review", "Working...", NoProgress),
     JsonLine("permission_blocker", "Permission blocker: Generic permission error",
              NoProgress)}

\* The batches of up to MaxBatch lines.
FoldBatches == UNION {[1..n -> FoldLines] : n \in 0..MaxBatch}

\* The WorkerStates a pass starts from.  A worker is idle at that point exactly
\* when stop() has just unregistered it; completed is reached at progress 90 or
\* more; failed is given to a worker whose process has exited.
FoldStates ==
    {WorkerState(s, p, n) : s \in WorkerStatus, p \in {0, 40, 75, 80, 90, 95, 100}, n \in {0, 1}}

\* The monitoring loop at the start of the state-update pass of one worker:
\* the batch has been ingested; the worker is registered with a live or an
\* exited process, or stop() has unregistered it since the ingestion.
InitFold ==
    \E lines \in FoldBatches, ws \in FoldStates, registered \in BOOLEAN, alive \in BOOLEAN :
        /\ ~registered => ~alive
        /\ (ws.status = "idle") <=> ~registered
        /\ ws.status = "completed" => ws.progress >= 90
        /\ ws.status = "failed" => ~alive
        /\ workers = (IF registered THEN {FoldRole} ELSE {})
        /\ session_workers = {FoldRole}
        /\ wstate = [r \in AgentName |-> IF r = FoldRole THEN ws ELSE WorkerState("idle", 0, 0)]
        /\ proc = [r \in AgentName |->
                     IF r = FoldRole THEN (IF alive THEN "running" ELSE "exited") ELSE "none"]
        /\ skip_git_check = [r \in AgentName |-> TRUE]
        /\ dir_access = DirsAccessible
        /\ log_len = [r \in AgentName |-> IF r = FoldRole THEN Len(lines) ELSE 0]
        /\ offset = [r \in AgentName |-> IF r = FoldRole THEN Len(lines) ELSE 0]
        /\ unread = [r \in AgentName |-> <<>>]
        /\ stderr = [r \in AgentName |-> <<>>]
        /\ is_running = registered
        /\ is_paused = FALSE
        /\ is_complete = FALSE
        /\ resumed = FALSE
        /\ ev_keys = <<FoldRole>>
        /\ all_events = [r \in AgentName |-> IF r = FoldRole THEN ParseLines(lines) ELSE <<>>]
        /\ idx = 1
        /\ pos = 0
        /\ rec_issue = "none"
        /\ EmptyRecords
        /\ round_reviews = <<>>
        /\ pc = "fold"

\* One turn of "for event in events" for the worker of the pass.
FoldStep ==
    /\ pc = "fold"
    /\ pos < Len(all_events[ev_keys[idx]])
    /\ wstate' = [wstate EXCEPT ![ev_keys[idx]] = FoldEvent(@, all_events[ev_keys[idx]][pos + 1])]
    /\ pos' = pos + 1
    /\ UNCHANGED <<workers, session_workers, proc, skip_git_check, dir_access, files, flags, pc, ev_keys,
                   all_events, idx, rec_issue, review_state, recovery_logs, env_steps, resumed>>

\* "Update worker process status", after the last event of the batch.
ResolveStep ==
    /\ pc = "fold"
    /\ pos = Len(all_events[ev_keys[idx]])
    /\ wstate' = [wstate EXCEPT ![ev_keys[idx]] =
                    Resolve(@, ev_keys[idx] \in workers, IsRunning(ev_keys[idx]))]
    /\ pc' = "folded"
    /\ UNCHANGED <<workers, session_workers, proc, skip_git_check, dir_access, files, flags, ev_keys,
                   all_events, idx, pos, rec_issue, review_state, recovery_logs, env_steps, resumed>>

NextFold ==
    \/ FoldStep
    \/ ResolveStep

SpecFold == InitFold /\ [][NextFold]_vars

\* C10: right after an event whose text contains "complete" or "done" is folded,
\* whatever its kind, the worker's status is completed and its progress is 100.
C10_CompletionTextWins ==
    [][(FoldStep /\ HasCompletionText(all_events[ev_keys[idx]][pos + 1])) =>
          /\ wstate'[ev_keys[idx]].status = "completed"
          /\ wstate'[ev_keys[idx]].progress = 100]_vars

\* C10 witness: a blocker event whose text says "complete" has just been folded
\* and the worker is completed at progress 100.
C10_Witness ==
    /\ pc = "fold"
    /\ pos >= 1
    /\ all_events[ev_keys[idx]][pos].type = "blocker"
    /\ all_events[ev_keys[idx]][pos].text = "Major phase complete"
    /\ wstate[ev_keys[idx]].status = "completed"
    /\ wstate[ev_keys[idx]].progress = 100

\* ------------------------------------------------- terminal status, reconciliation
\* C8: once a worker's status is completed or failed, the state-update pass of
\* a later batch of events leaves that status as it is.
C8_TerminalStatusKept ==
    [][(/\ UpdateWorker
        /\ ev_keys[idx] \in session_workers
        /\ wstate[ev_keys[idx]].status \in TerminalStatus) =>
          wstate'[ev_keys[idx]].status = wstate[ev_keys[idx]].status]_vars

\* C9: at the end of the state-update pass of a worker whose process is not
\* alive, a status that is running after the batch is folded becomes completed
\* when progress >= 90 and failed when progress < 90, and any other status
\* stays as the fold left it.
C9_DeadWorkerResolved ==
    [][(/\ UpdateWorker
        /\ ev_keys[idx] \in session_workers
        /\ ~IsRunning(ev_keys[idx])) =>
          LET folded == FoldBatch(wstate[ev_keys[idx]], all_events[ev_keys[idx]])
          IN  wstate'[ev_keys[idx]].status =
                 (IF folded.status # "running" THEN folded.status
                  ELSE IF folded.progress >= 90 THEN "completed"
                  ELSE "failed")]_vars

\* ------------------------------------------------------------ the log offsets
\* C11: every line written to a worker's log is pending for the next
\* read_events call (none is skipped), a relaunch included, and after each read
\* of the logs the saved offset of every registered worker is the end of its log.
C11_EveryLineReadOnce ==
    [][/\ \A r \in AgentName :
            log_len'[r] > log_len[r] =>
                Len(unread'[r]) = Len(unread[r]) + (log_len'[r] - log_len[r])
       /\ Relaunch => Len(unread'[ev_keys[idx]]) = log_len'[ev_keys[idx]]
       /\ (Ingest \/ TriggerReview \/ EventStreamPoll) =>
             \A r \in workers : offset'[r] = log_len'[r]]_vars

\* C12: while the supervisory loop runs, a call of the external interface
\* (trigger-review, a poll of the event stream) leaves what the supervisory loop will ingest as it was: the lines
\* of every log that are pending for the loop's next read, and the saved
\* offsets, are untouched by that call.
C12_ExternalCallsLeaveIngestAlone ==
    [][(pc \notin {"init", "launched", "ended"} /\ (TriggerReview \/ EventStreamPoll)) =>
          /\ unread' = unread
          /\ offset' = offset]_vars

\* C13: whenever the recovery engine records an action (a relaunch or an
\* escalation), the recovery line it wrote to the worker's log is pending for
\* that worker's next read_events call.
C13_RecoveryEventPending ==
    [][Len(engine_actions') > Len(engine_actions) =>
          LET action == engine_actions'[Len(engine_actions')]
              r == action.worker
          IN  /\ unread'[r] # <<>>
              /\ unread'[r][Len(unread'[r])] = RecoveryLine(action)]_vars

\* ----------------------------------------------- the recovery pass on its own
\* The lines a batch under recovery is made of: errors with the role's failure
\* text, with the generic failure text and with a text no signature matches,
\* and an event of another kind that carries the role's failure text.
RecoverLines(r) ==
    {JsonLine("error", SignatureText(r), NoProgress),
     JsonLine("error", "Permission denied", NoProgress),
     JsonLine("error", "Connection reset", NoProgress),
     JsonLine("status", SignatureText(r), NoProgress)}

RecoverBatches(r) == UNION {[1..n -> RecoverLines(r)] : n \in 0..MaxBatch}

\* What the diagnostic stream holds when the pass starts.
RecoverStderr(r) ==
    UNION {[1..n -> {SignatureText(r), "Permission denied", "Connection reset"}] :
             n \in 0..MaxBatch}

\* The monitoring loop at the start of its recovery pass: one worker is
\* registered, its batch has been ingested and folded, its process is alive or
\* has exited.  WorkerProcess takes skip_git_check as a constructor argument.
InitRecover ==
    \E r \in AgentName, alive \in BOOLEAN, flag \in BOOLEAN :
      \E lines \in RecoverBatches(r), errs \in RecoverStderr(r) :
        /\ workers = {r}
        /\ session_workers = {r}
        /\ wstate = [a \in AgentName |->
                       IF a = r
                       THEN Resolve(FoldBatch(WorkerState("running", 0, 0), ParseLines(lines)),
                                    TRUE, alive)
                       ELSE WorkerState("idle", 0, 0)]
        /\ proc = [a \in AgentName |->
                     IF a = r THEN (IF alive THEN "running" ELSE "exited") ELSE "none"]
        /\ skip_git_check = [a \in AgentName |-> IF a = r THEN flag ELSE TRUE]
        /\ dir_access = DirsAccessible
        /\ log_len = [a \in AgentName |-> IF a = r THEN Len(lines) ELSE 0]
        /\ offset = [a \in AgentName |-> IF a = r THEN Len(lines) ELSE 0]
        /\ unread = [a \in AgentName |-> <<>>]
        /\ stderr = [a \in AgentName |-> IF a = r THEN errs ELSE <<>>]
        /\ is_running = TRUE
        /\ is_paused = FALSE
        /\ is_complete = FALSE
        /\ resumed = FALSE
        /\ ev_keys = <<r>>
        /\ all_events = [a \in AgentName |-> IF a = r THEN ParseLines(lines) ELSE <<>>]
        /\ idx = 1
        /\ pos = 0
        /\ rec_issue = "none"
        /\ EmptyRecords
        /\ round_reviews = <<>>
        /\ pc = "recover"

\* The recovery pass, then the loop as it goes on, with the worker writing to
\* its diagnostic stream or exiting, and stop() called from outside.
NextRecover ==
    \/ RecoverStep
    \/ Relaunch
    \/ ReviewStep
    \/ CheckStep
    \/ WhileCheck
    \/ Ingest
    \/ UpdateWorker
    \/ Stop
    \/ \E r \in AgentName : WorkerStderr(r)
    \/ \E r \in AgentName : WorkerExit(r)

SpecRecover == InitRecover /\ [][NextRecover]_vars

\* C14: a recovery that relaunches (role-specific permission failure,
\* environment-check failure) stops the worker's process before it launches the
\* new one; when it returns the worker has a live process and status running,
\* and the recovery log and the session log have each grown by exactly the
\* one action of this recovery; once an environment-check recovery is
\* recorded for a worker, its skip-check flag is set, at that launch and after.
C14_RelaunchAfterStop ==
    [][/\ (RecoverStep /\ pc' = "relaunch") => proc'[ev_keys[idx]] # "running"
       /\ Relaunch =>
            LET r == ev_keys[idx]
                n == Len(engine_actions)
                m == Len(recovery_actions)
            IN  /\ proc[r] # "running"
                /\ proc'[r] = "running"
                /\ wstate'[r].status = "running"
                /\ Len(engine_actions') = n + 1
                /\ SubSeq(engine_actions', 1, n) = engine_actions
                /\ engine_actions'[n + 1].worker = r
                /\ engine_actions'[n + 1].issue = rec_issue
                /\ recovery_actions' = Append(recovery_actions, engine_actions'[n + 1])
                /\ rec_issue = "codex_git_check" => skip_git_check'[r]
       /\ \A i \in 1..Len(engine_actions') :
            engine_actions'[i].issue = "codex_git_check" =>
                skip_git_check'[engine_actions'[i].worker]]_vars

\* A worker constructed without the skip-check flag was relaunched for an
\* environment-check failure and relaunched again later; it is alive and running.
C14_Witness ==
    /\ Len(engine_actions) = 2
    /\ engine_actions[1].issue = "codex_git_check"
    /\ engine_actions[2].worker = engine_actions[1].worker
    /\ engine_actions[2].action \in {"relaunched_with_directories", "relaunched_with_skip_flag"}
    /\ recovery_actions = engine_actions
    /\ IsRunning(engine_actions[1].worker)
    /\ wstate[engine_actions[1].worker].status = "running"
    /\ skip_git_check[engine_actions[1].worker]

\* C15: the recovery for a generic permission failure leaves the worker as
\* it was (process, status, launch configuration, registration) and launches
\* nothing; it appends exactly one escalation action, tagged as needing the
\* user's intervention, to the recovery log and to the session log, and writes
\* two lines to the worker's log: one permission-blocker event, then one
\* recovery event.
C15_EscalationLeavesWorkerAlone ==
    [][(/\ RecoverStep
        /\ ev_keys[idx] \in workers
        /\ CheckForErrors(ev_keys[idx], all_events[ev_keys[idx]], stderr[ev_keys[idx]])
              = "generic_permission") =>
          LET r == ev_keys[idx]
              escalation == [worker |-> r, issue |-> "escalated_permission",
                             action |-> "user_intervention_required"]
              k == Len(unread'[r])
          IN  /\ proc' = proc
              /\ wstate' = wstate
              /\ skip_git_check' = skip_git_check
              /\ workers' = workers
              /\ pc' # "relaunch"
              /\ engine_actions' = Append(engine_actions, escalation)
              /\ recovery_actions' = Append(recovery_actions, escalation)
              /\ log_len'[r] = log_len[r] + 2
              /\ offset[r] <= log_len[r] =>
                    /\ k = Len(unread[r]) + 2
                    /\ SubSeq(unread'[r], 1, k - 2) = unread[r]
                    /\ unread'[r][k - 1].type = "permission_blocker"
                    /\ unread'[r][k].type = "recovery"]_vars

\* An escalation has been recorded for a worker that is still alive and
\* running, and its two lines are pending in the worker's log.
C15_Witness ==
    /\ Len(engine_actions) = 1
    /\ engine_actions[1].action = "user_intervention_required"
    /\ recovery_actions = engine_actions
    /\ IsRunning(engine_actions[1].worker)
    /\ wstate[engine_actions[1].worker].status = "running"
    /\ Len(unread[engine_actions[1].worker]) = 2
    /\ unread[engine_actions[1].worker][1].type = "permission_blocker"
    /\ unread[engine_actions[1].worker][2].type = "recovery"

\* C17: the tag a recovery step acts on is the tag of the first event of kind
\* error whose text has one (events of other kinds are not looked at); the
\* diagnostic stream is read only when no event gave a tag, and then its first
\* line that has a tag decides; with no tag from either, the step records no
\* recovery action and leaves the worker and its log alone.
C17_FirstTaggedErrorDecides ==
    [][(RecoverStep /\ ev_keys[idx] \in workers) =>
          LET r == ev_keys[idx]
              events == all_events[r]
              lines == stderr[r]
              tagged_events == {i \in 1..Len(events) :
                                  /\ events[i].type = "error"
                                  /\ DetectErrorType(r, events[i].text) # "none"}
              tagged_lines == {j \in 1..Len(lines) : DetectErrorType(r, lines[j]) # "none"}
              first_event == CHOOSE i \in tagged_events : \A k \in tagged_events : i <= k
              first_line == CHOOSE j \in tagged_lines : \A k \in tagged_lines : j <= k
              expected == IF tagged_events # {}
                          THEN DetectErrorType(r, events[first_event].text)
                          ELSE IF tagged_lines # {}
                          THEN DetectErrorType(r, lines[first_line])
                          ELSE "none"
              acted_on == IF pc' = "relaunch" THEN rec_issue'
                          ELSE IF engine_actions' # engine_actions THEN "generic_permission"
                          ELSE "none"
          IN  /\ acted_on = expected
              /\ tagged_events # {} => stderr' = stderr
              /\ tagged_events = {} => stderr'[r] = <<>>
              /\ expected = "none" =>
                    /\ engine_actions' = engine_actions
                    /\ recovery_actions' = recovery_actions
                    /\ proc' = proc
                    /\ wstate' = wstate
                    /\ log_len' = log_len]_vars

\* A relaunch decided by the diagnostic stream: the batch held an event of
\* another kind with the role's failure text and no error event with a tag.
C17_Witness ==
    /\ pc = "relaunch"
    /\ rec_issue \in {"gemini_permissions", "codex_git_check"}
    /\ engine_actions = <<>>
    /\ session_reviews = <<>>
    /\ stderr[ev_keys[idx]] = <<>>
    /\ \E i \in 1..Len(all_events[ev_keys[idx]]) :
          /\ all_events[ev_keys[idx]][i].type = "status"
          /\ all_events[ev_keys[idx]][i].text = SignatureText(ev_keys[idx])
    /\ \E i \in 1..Len(all_events[ev_keys[idx]]) :
          /\ all_events[ev_keys[idx]][i].type = "error"
          /\ all_events[ev_keys[idx]][i].text = "Connection reset"

\* ------------------------------------------------- _detect_error_type on its own
\* The texts detection is given: each signature as written, signatures in
\* another case or inside a longer text, texts with two failure phrasings, and
\* texts no signature matches.
DetectTexts ==
    {"Path must be within one of the workspace directories",
     "File path must be within one of the workspace directories",
     "path must be within one of the WORKSPACE DIRECTORIES",
     "Permission denied",
     "Permission denied: /some/path",
     "permission denied",
     "PERMISSION DENIED",
     "Permission denied outside the workspace directories",
     "Permission denied: not a git repository",
     "Authentication required",
     "authentication REQUIRED",
     "Not inside a trusted directory",
     "not inside a trusted directory",
     "Repository check failed",
     "fatal: not a git repository (or any of the parent directories)",
     "Access blocked",
     "Access Blocked by policy",
     "Processing file successfully",
     "Connection reset",
     "Working..."}

\* A recovery engine about to be asked for the tag of one text for one role.
InitDetect ==
    \E r \in AgentName, text \in DetectTexts :
        /\ NoWorkers
        /\ log_len = [a \in AgentName |-> 0]
        /\ unread = [a \in AgentName |-> <<>>]
        /\ offset = [a \in AgentName |-> 0]
        /\ stderr = [a \in AgentName |-> IF a = r THEN <<text>> ELSE <<>>]
        /\ FlagsDown
        /\ ev_keys = <<r>>
        /\ all_events = NoEvents
        /\ idx = 1
        /\ pos = 0
        /\ rec_issue = "none"
        /\ EmptyRecords
        /\ round_reviews = <<>>
        /\ pc = "detect"

\* error_type = self._detect_error_type(worker.name, line)
DetectCall ==
    /\ pc = "detect"
    /\ rec_issue' = DetectErrorType(ev_keys[idx], stderr[ev_keys[idx]][1])
    /\ pc' = "detected"
    /\ UNCHANGED <<pos, skip_git_check, dir_access, workers, session_workers, wstate, proc, files, flags,
                   ev_keys, all_events, idx, review_state, recovery_logs, env_steps, resumed>>

NextDetect == DetectCall

SpecDetect == InitDetect /\ [][NextDetect]_vars

\* C16: detection returns one of the three issue tags for every text that
\* matches (case-insensitively) at least one signature of the role, and no
\* tag for a text that matches none.
C16_MatchGivesTag ==
    [][DetectCall =>
          LET r == ev_keys[idx]
              text == stderr[r][1]
              matched == \E i \in 1..Len(ERROR_PATTERNS(r)) : Matches(ERROR_PATTERNS(r)[i], text)
          IN  IF matched
              THEN rec_issue' \in {"gemini_permissions", "codex_git_check", "generic_permission"}
              ELSE rec_issue' = "none"]_vars

\* --------------------------------------------------- read_events on its own
\* The lines a log under read is made of: records of known kinds, lines
\* json.loads rejects (a short one and one longer than 200 characters), a record
\* with no type, a record with a type outside EventType, and a record whose
\* progress is outside 0..100.
ReadLines ==
    {JsonLine("progress", "Working...", 40),
     JsonLine("status", "All tasks DONE", NoProgress),
     JsonLine("error", "Connection reset", NoProgress),
     BadLine("{bad"),
     BadLine(LongLine),
     JsonLine("", "No type here", NoProgress),
     JsonLine("heartbeat", "Still alive", 40),
     JsonLine("progress", "Almost there", 150)}

ReadBatches == UNION {[1..n -> ReadLines] : n \in 0..MaxBatch}

\* The WorkerStates a read starts from.
ReadStates == {WorkerState("running", p, n) : p \in {0, 80}, n \in {0, 1}}

\* The monitoring loop about to call get_all_events(): one worker is
\* registered, its process alive or exited; its log holds lines read by an
\* earlier iteration (read_before of them) and then the lines of this read.
InitRead ==
    \E r \in AgentName, alive \in BOOLEAN, read_before \in {0, 1} :
      \E lines \in ReadBatches, ws \in ReadStates :
        /\ workers = {r}
        /\ session_workers = {r}
        /\ wstate = [a \in AgentName |-> IF a = r THEN ws ELSE WorkerState("idle", 0, 0)]
        /\ proc = [a \in AgentName |->
                     IF a = r THEN (IF alive THEN "running" ELSE "exited") ELSE "none"]
        /\ skip_git_check = [a \in AgentName |-> TRUE]
        /\ dir_access = DirsAccessible
        /\ log_len = [a \in AgentName |-> IF a = r THEN read_before + Len(lines) ELSE 0]
        /\ offset = [a \in AgentName |-> IF a = r THEN read_before ELSE 0]
        /\ unread = [a \in AgentName |-> IF a = r THEN lines ELSE <<>>]
        /\ stderr = [a \in AgentName |-> <<>>]
        /\ is_running = TRUE
        /\ is_paused = FALSE
        /\ is_complete = FALSE
        /\ resumed = FALSE
        /\ NoLoopLocals
        /\ EmptyRecords
        /\ round_reviews = <<>>
        /\ pc = "ingest"

\* The read, then the state update from what was read.
NextRead ==
    \/ Ingest
    \/ UpdateWorker

SpecRead == InitRead /\ [][NextRead]_vars

\* The error events read_events makes for the lines json.loads rejects.
IsMalformedEvent(e) ==
    /\ e.type = "error"
    /\ e.text \in {MalformedText("{bad"), MalformedText(LongLine)}

\* C18: in one read, each line that is not JSON gives exactly one event of
\* kind error whose text is the line cut to 200 characters after the
\* "Malformed JSON: " prefix, in the order of the lines; the read completes,
\* the other lines of the read give the events they give without the bad lines,
\* and the offset ends at the end of the log.
C18_BadLineGivesOneError ==
    [][Ingest =>
          \A r \in workers :
            LET bad == SelectSeq(unread[r], LAMBDA l : ~l.json)
                good == SelectSeq(unread[r], LAMBDA l : l.json)
                made == SelectSeq(all_events'[r], IsMalformedEvent)
                rest == SelectSeq(all_events'[r], LAMBDA e : ~IsMalformedEvent(e))
            IN  /\ Len(made) = Len(bad)
                /\ \A i \in 1..Len(bad) :
                      /\ Len(made[i].text) = Len("Malformed JSON: ") + Min(Len(bad[i].text), 200)
                      /\ Len(bad[i].text) <= 200 =>
                            made[i].text = "Malformed JSON: " \o bad[i].text
                      /\ made[i].progress = NoProgress
                /\ rest = ParseLines(good)
                /\ offset'[r] = log_len[r]
                /\ pc' = "update"]_vars

\* A read of a long bad line followed by a progress record: the error event
\* with the cut text, then the progress event, and the offset at the end.
C18_Witness ==
    /\ pc = "update"
    /\ \E r \in workers :
          /\ all_events[r] = <<Event("error", MalformedText(LongLine), NoProgress),
                               Event("progress", "Working...", 40)>>
          /\ offset[r] = log_len[r]
          /\ offset[r] = 3

\* C19: a record with no type, or with a type outside EventType, gives no
\* event: what one read returns, and the worker's status, progress and error
\* count once that batch is folded, are what they are for the same lines
\* without those records; the offset still ends at the end of the log.
C19_NoKindNoEvent ==
    [][Ingest =>
          \A r \in workers :
            LET kept == SelectSeq(unread[r], LAMBDA l : ~(l.json /\ l.type \notin EventType))
            IN  /\ all_events'[r] = ParseLines(kept)
                /\ \A i \in 1..Len(all_events'[r]) :
                      all_events'[r][i].text \notin {"No type here", "Still alive"}
                /\ Resolve(FoldBatch(wstate[r], all_events'[r]), TRUE, IsRunning(r))
                      = Resolve(FoldBatch(wstate[r], ParseLines(kept)), TRUE, IsRunning(r))
                /\ offset'[r] = log_len[r]]_vars

\* A read of three lines gave one event, a progress record's: the batch is
\* folded, the offset is at the end of the log.
C19_Witness ==
    /\ pc = "recover"
    /\ \E r \in workers :
          /\ all_events[r] = <<Event("progress", "Working...", 40)>>
          /\ offset[r] = 3
          /\ log_len[r] = 3
          /\ wstate[r] = WorkerState("running", 40, 0)

\* C20: a record of a known kind whose progress is outside 0..100 gives an
\* event with the progress brought into 0..100, and every event's progress,
\* when it has one, is within 0..100.
C20_ProgressClamped ==
    [][Ingest =>
          \A r \in workers :
            LET records == SelectSeq(unread[r], LAMBDA l : l.json /\ l.type \in EventType)
                made == SelectSeq(all_events'[r], LAMBDA e : ~IsMalformedEvent(e))
            IN  /\ Len(made) = Len(records)
                /\ \A i \in 1..Len(made) :
                      /\ made[i].type = records[i].type
                      /\ made[i].progress = (IF records[i].progress = NoProgress
                                             THEN NoProgress
                                             ELSE Max(0, Min(100, records[i].progress)))
                /\ \A i \in 1..Len(all_events'[r]) :
                      all_events'[r][i].progress \in {NoProgress} \cup 0..100]_vars

\* ------------------------------------------- should_trigger_review on its own
\* The events a batch holds when the trigger is evaluated: ordinary status and
\* error events, a milestone, a blocker, and texts that ask for a review in
\* two spellings.
TriggerEvents ==
    {Event("status", "Working...", NoProgress),
     Event("error", "Connection reset", NoProgress),
     Event("milestone", "Working...", NoProgress),
     Event("blocker", "Blocked on X", NoProgress),
     Event("status", "Please review", NoProgress),
     Event("finding", "REVIEW needed", NoProgress)}

TriggerBatches == UNION {[1..n -> TriggerEvents] : n \in 0..MaxBatch}

\* The monitoring loop at its review step, at any time after the session's
\* start: no worker, one or two were launched, their batches ingested and
\* folded, no recovery applied; a review has taken place or not.
InitTrigger ==
    \E launched \in {{}, {"claude"}, {"gemini", "claude"}} :
      \E of_claude \in TriggerBatches, of_gemini \in TriggerBatches,
         last \in {"none", "none_late", "recent", "overdue"} :
        LET batch == [r \in AgentName |->
                        IF r = "claude" THEN of_claude
                        ELSE IF r = "gemini" THEN of_gemini
                        ELSE <<>>]
        IN  /\ \A r \in AgentName \ launched : batch[r] = <<>>
            /\ workers = launched
            /\ session_workers = launched
            /\ proc = [r \in AgentName |-> IF r \in launched THEN "running" ELSE "none"]
            /\ wstate = [r \in AgentName |->
                           IF r \in launched
                           THEN FoldBatch(WorkerState("running", 0, 0), batch[r])
                           ELSE WorkerState("idle", 0, 0)]
            /\ skip_git_check = [r \in AgentName |-> TRUE]
            /\ dir_access = DirsAccessible
            /\ log_len = [r \in AgentName |-> Len(batch[r])]
            /\ offset = [r \in AgentName |-> Len(batch[r])]
            /\ unread = [r \in AgentName |-> <<>>]
            /\ stderr = [r \in AgentName |-> <<>>]
            /\ is_running = TRUE
            /\ is_paused = FALSE
            /\ is_complete = FALSE
            /\ resumed = FALSE
            /\ ev_keys = KeysOf(launched)
            /\ all_events = batch
            /\ idx = 1
            /\ pos = 0
            /\ rec_issue = "none"
            /\ decisions = <<>>
            /\ engine_decisions = <<>>
            /\ recovery_actions = <<>>
            /\ engine_actions = <<>>
            /\ session_reviews = <<>>
            /\ last_review_time = last
            /\ env_steps = 0
            /\ round_reviews = <<>>
            /\ pc = "review"

\* A call of should_trigger_review(all_events) or of
\* should_trigger_review(all_events, force=True), and what it returns.
ShouldTriggerCall(force) ==
    /\ pc = "review"
    /\ pc' = (IF ShouldTriggerReview(ev_keys, all_events, force, last_review_time)
              THEN "returned_true" ELSE "returned_false")
    /\ UNCHANGED <<pos, skip_git_check, dir_access, workers, session_workers, wstate, proc, files, flags,
                   loop_locals, review_state, recovery_logs, env_steps, resumed>>

ShouldTriggerUnforced == ShouldTriggerCall(FALSE)

ShouldTriggerForced == ShouldTriggerCall(TRUE)

NextTrigger ==
    \/ ShouldTriggerUnforced
    \/ ShouldTriggerForced
    \/ ReviewStep

SpecTrigger == InitTrigger /\ [][NextTrigger]_vars

\* C21: should_trigger_review returns true when forced; unforced, it returns
\* true exactly when some pending event of some worker is a milestone or a
\* blocker, or the text of some pending event holds "review" in any case, or
\* the last review is more than 15 minutes old.
C21_TriggerCondition ==
    [][/\ ShouldTriggerForced => pc' = "returned_true"
       /\ ShouldTriggerUnforced =>
            (pc' = "returned_true" <=>
               \/ \E i \in 1..Len(ev_keys) : \E k \in 1..Len(all_events[ev_keys[i]]) :
                     \/ all_events[ev_keys[i]][k].type \in {"milestone", "blocker"}
                     \/ all_events[ev_keys[i]][k].text \in {"Please review", "REVIEW needed"}
               \/ last_review_time = "overdue")]_vars

\* The trigger returned true for a batch whose only reason is a text asking
\* for a review in capitals, in the second worker's events.
C21_Witness ==
    /\ pc = "returned_true"
    /\ last_review_time = "recent"
    /\ Len(ev_keys) = 2
    /\ all_events[ev_keys[1]] = <<Event("status", "Working...", NoProgress)>>
    /\ all_events[ev_keys[2]] = <<Event("error", "Connection reset", NoProgress),
                                  Event("finding", "REVIEW needed", NoProgress)>>

\* C22: with the session running and not paused, when more than 15 minutes have
\* passed since the last review, or since the session's start when there has
\* been no review, the loop's review step conducts a round and appends a
\* decision.
C22_StallGetsReview ==
    [][(/\ ReviewStep
        /\ is_running
        /\ ~is_paused
        /\ last_review_time \in {"overdue", "none_late"}) =>
          Len(decisions') = Len(decisions) + 1]_vars

\* ------------------------------------- _simulate_review_response on its own
\* The events of a review's target: errors and blockers with two texts each,
\* and an ordinary status event.
TargetEvents ==
    {Event("error", "Connection reset", NoProgress),
     Event("error", "Malformed JSON: {bad", NoProgress),
     Event("blocker", "Blocked on X", NoProgress),
     Event("blocker", "Major phase complete", NoProgress),
     Event("status", "Working...", NoProgress)}

TargetBatches == UNION {[1..n -> TargetEvents] : n \in 0..MaxTargetEvents}

\* The three (reviewer, target) pairs of conduct_peer_review.
ReviewPairs == {<<"gemini", "claude">>, <<"codex", "gemini">>, <<"codex", "claude">>}

\* conduct_peer_review about to ask for the review of one pair: the three
\* workers are registered and the target's events are in all_events.
InitVerdict ==
    \E pair \in ReviewPairs, target_events \in TargetBatches :
        /\ workers = AgentName
        /\ session_workers = AgentName
        /\ proc = [r \in AgentName |-> "running"]
        /\ wstate = [r \in AgentName |->
                       IF r = pair[2]
                       THEN FoldBatch(WorkerState("running", 0, 0), target_events)
                       ELSE WorkerState("running", 0, 0)]
        /\ skip_git_check = [r \in AgentName |-> TRUE]
        /\ dir_access = DirsAccessible
        /\ log_len = [r \in AgentName |-> IF r = pair[2] THEN Len(target_events) ELSE 0]
        /\ offset = [r \in AgentName |-> IF r = pair[2] THEN Len(target_events) ELSE 0]
        /\ unread = [r \in AgentName |-> <<>>]
        /\ stderr = [r \in AgentName |-> <<>>]
        /\ is_running = TRUE
        /\ is_paused = FALSE
        /\ is_complete = FALSE
        /\ resumed = FALSE
        /\ ev_keys = <<pair[1], pair[2]>>
        /\ all_events = [r \in AgentName |-> IF r = pair[2] THEN target_events ELSE <<>>]
        /\ idx = 1
        /\ pos = 0
        /\ rec_issue = "none"
        /\ EmptyRecords
        /\ round_reviews = <<>>
        /\ pc = "simulate"

\* review = self._simulate_review_response(reviewer, target, all_events.get(target, []))
SimulateCall ==
    /\ pc = "simulate"
    /\ round_reviews' = <<SimulateReviewResponse(ev_keys[1], ev_keys[2], all_events[ev_keys[2]])>>
    /\ pc' = "simulated"
    /\ UNCHANGED <<pos, skip_git_check, dir_access, workers, session_workers, wstate, proc, files, flags,
                   loop_locals, decisions, engine_decisions, last_review_time, session_reviews,
                   recovery_logs, env_steps, resumed>>

NextVerdict == SimulateCall

SpecVerdict == InitVerdict /\ [][NextVerdict]_vars

\* C23: the review synthesized for a pair has the verdict blocker when the
\* target's events hold a blocker, else concerns when they hold two errors or
\* more, else approved; it is the review of that pair, and it lists at most
\* three issues.
C23_VerdictFromEvents ==
    [][SimulateCall =>
          LET target_events == all_events[ev_keys[2]]
              kinds(t) == {i \in 1..Len(target_events) : target_events[i].type = t}
              review == round_reviews'[1]
          IN  /\ Len(round_reviews') = 1
              /\ review.reviewer = ev_keys[1]
              /\ review.target = ev_keys[2]
              /\ review.verdict = (IF kinds("blocker") # {} THEN "blocker"
                                   ELSE IF Cardinality(kinds("error")) >= 2 THEN "concerns"
                                   ELSE "approved")
              /\ Len(review.issues) <= 3]_vars

\* A review of a target with four blockers: the verdict is blocker and three
\* issues are listed.
C23_Witness ==
    /\ pc = "simulated"
    /\ round_reviews[1].verdict = "blocker"
    /\ Len(round_reviews[1].issues) = 3
    /\ Len(all_events[ev_keys[2]]) = 4
    /\ \A i \in 1..4 : all_events[ev_keys[2]][i].type = "blocker"

\* ------------------------------------------------- the session decision log
\* A review round: the loop's review step when should_trigger_review holds, or
\* the trigger-review operation.
\* C24: every review round appends exactly one decision to the session decision
\* log, no step modifies or removes an earlier entry, and a round that produced
\* no reviews appends continue with the reason "No reviews to evaluate".
C24_OneDecisionPerRound ==
    [][/\ Len(decisions') >= Len(decisions)
       /\ SubSeq(decisions', 1, Len(decisions)) = decisions
       /\ (\/ TriggerReview
           \/ ReviewStep /\ ShouldTriggerReview(ev_keys, all_events, FALSE, last_review_time))
          => /\ Len(decisions') = Len(decisions) + 1
             /\ round_reviews' = <<>> =>
                   /\ decisions'[Len(decisions')].action = "CONTINUE"
                   /\ decisions'[Len(decisions')].reason = "No reviews to evaluate"]_vars

\* A second round, without reviews, has appended its continue decision after
\* the decision of an earlier round.
C24_Witness ==
    /\ Len(decisions) >= 2
    /\ round_reviews = <<>>
    /\ decisions[Len(decisions)] = Decision("CONTINUE", "No reviews to evaluate")

\* ------------------------------------------------- the decision tree's default
\* C25: a list of verdicts that matches none of the four rules (no blocker, no
\* concerns, and not a list of approved verdicts: the empty list, or a list
\* holding something else than approved) is decided log-warning with the reason
\* "Mixed or unclear review results".
C25_DefaultIsLogWarning ==
    pc = "evaluated" =>
        LET decision == engine_decisions[Len(engine_decisions)]
            nb == VerdictCount(round_reviews, "blocker")
            nc == VerdictCount(round_reviews, "concerns")
            na == VerdictCount(round_reviews, "approved")
        IN  (nb = 0 /\ nc = 0 /\ (round_reviews = <<>> \/ na # Len(round_reviews)))
                => decision = Decision("LOG_WARNING", "Mixed or unclear review results")

\* ------------------------------------------------------- the review log
\* C26: a review round (the loop's review step when should_trigger_review
\* holds, or the trigger-review operation) appends each review it produced to
\* the review log of the session: the log is longer by the number of reviews of
\* the round and its earlier entries are unchanged.
C26_ReviewsLogged ==
    [][(\/ TriggerReview
        \/ ReviewStep /\ ShouldTriggerReview(ev_keys, all_events, FALSE, last_review_time))
          => /\ Len(session_reviews') = Len(session_reviews) + Len(round_reviews')
             /\ SubSeq(session_reviews', 1, Len(session_reviews)) = session_reviews]_vars

\* ------------------------------------------------- the completed session
\* C27: once the session is marked complete, no step changes the WorkerState of
\* a worker of the session, nor the decision log, the recovery log or the
\* review log of the session.
C27_CompleteSessionFrozen ==
    [][is_complete =>
          /\ \A r \in session_workers : wstate'[r] = wstate[r]
          /\ session_workers' = session_workers
          /\ decisions' = decisions
          /\ recovery_actions' = recovery_actions
          /\ session_reviews' = session_reviews]_vars

\* ------------------------------------------------- the session's workers
\* C28: once launch_all_workers has returned, the session holds a WorkerState
\* for each of the three roles, and no step removes an entry.
C28_ThreeWorkerStates ==
    /\ [](pc # "init" => session_workers = AgentName)
    /\ [][pc # "init" => session_workers \subseteq session_workers']_vars

\* ------------------------------------------------- the iteration never waits
\* C29: whatever the workers have done, the turn of the recovery loop that
\* reads a worker's diagnostic stream can be taken: it does not wait for the
\* worker to write more or to close the stream.
C29_IterationNeverWaits ==
    pc = "recover" => ENABLED RecoverStep

\* ------------------------------------------------- environment preparation
\* The order of the preparation loop of launch_all_workers.
PrepareOrder == <<"gemini", "codex", "claude">>

DirIndex(d) == CHOOSE i \in 1..Len(RequiredDirs) : RequiredDirs[i] = d

\* dir_path.mkdir(parents=True, exist_ok=True): the directory is made and can
\* be read and written, is made but cannot (the process's umask), or the call
\* raises.
MkdirOutcome == {"ok", "denied", "raised"}

\* os.chmod(dir_path, 0o755): the mode is set and the directory can now be read
\* and written, the call returns but access is still refused (the refusal does
\* not come from the mode bits, or the file system ignores them), or the call
\* raises.
ChmodOutcome == {"fixed", "unchanged", "raised"}

\* The place in required_dirs where a loop over the directories in the state
\* `state` raises, one past the end when it does not.
RaiseAt(access, outcome, state) ==
    LET raising == {i \in 1..Len(RequiredDirs) :
                       /\ access[RequiredDirs[i]] = state
                       /\ outcome[RequiredDirs[i]] = "raised"}
    IN  IF raising = {} THEN Len(RequiredDirs) + 1
        ELSE CHOOSE i \in raising : \A j \in raising : i <= j

\* Loop 1 of prepare_worker_environment: the missing directories are made.
AfterMkdir(access, mk) ==
    [d \in DirName |->
        IF access[d] = "missing" /\ DirIndex(d) < RaiseAt(access, mk, "missing")
        THEN mk[d] ELSE access[d]]

\* Loop 2 of prepare_worker_environment: os.chmod on the directories that
\* os.access refuses.
AfterChmod(access, ch) ==
    [d \in DirName |->
        IF access[d] = "denied" /\ DirIndex(d) < RaiseAt(access, ch, "denied") /\ ch[d] = "fixed"
        THEN "ok" ELSE access[d]]

\* launch_all_workers is about to prepare the environments: nothing is
\* launched, and each required directory is missing, refused or accessible.
InitPrepare ==
    /\ workers = {}
    /\ session_workers = {}
    /\ wstate = [r \in AgentName |-> WorkerState("idle", 0, 0)]
    /\ proc = [r \in AgentName |-> "none"]
    /\ skip_git_check = [r \in AgentName |-> FALSE]
    /\ dir_access \in [DirName -> {"missing", "denied", "ok"}]
    /\ EmptyFiles
    /\ FlagsDown
    /\ NoLoopLocals
    /\ EmptyRecords
    /\ round_reviews = <<>>
    /\ pc = "prepare"

\* self.recovery_engine.prepare_worker_environment(PrepareOrder[idx]), called
\* by launch_all_workers outside any try block: an exception leaves
\* launch_all_workers at once.
PrepareWorkerEnvironment ==
    /\ pc = "prepare"
    /\ \E mk \in [DirName -> MkdirOutcome], ch \in [DirName -> ChmodOutcome] :
          LET made == AfterMkdir(dir_access, mk)
              mkdir_raised == RaiseAt(dir_access, mk, "missing") <= Len(RequiredDirs)
              fixed == AfterChmod(made, ch)
              chmod_raised == RaiseAt(made, ch, "denied") <= Len(RequiredDirs)
          IN  IF mkdir_raised
              THEN /\ dir_access' = made
                   /\ pc' = "prepare_raised"
                   /\ UNCHANGED idx
              ELSE /\ dir_access' = fixed
                   /\ pc' = (IF chmod_raised THEN "prepare_raised"
                             ELSE IF idx = Len(PrepareOrder) THEN "init" ELSE "prepare")
                   /\ idx' = (IF chmod_raised THEN idx
                              ELSE IF idx = Len(PrepareOrder) THEN 1 ELSE idx + 1)
    /\ UNCHANGED <<pos, skip_git_check, workers, session_workers, wstate, proc, files, flags,
                   ev_keys, all_events, rec_issue, review_state, recovery_logs, env_steps, resumed>>

NextPrepare ==
    \/ PrepareWorkerEnvironment
    \/ LaunchAllWorkers

SpecPrepare == InitPrepare /\ [][NextPrepare]_vars

\* C30: a call of prepare_worker_environment that leaves a required directory
\* that cannot be read and written ends in an error, and after such an error no
\* worker is launched.
C30_InaccessibleDirFailsPreparation ==
    /\ [][(PrepareWorkerEnvironment /\ \E d \in DirName : dir_access'[d] # "ok")
             => pc' = "prepare_raised"]_vars
    /\ [](pc = "prepare_raised" => workers = {})

\* ------------------------------------------------- an Event through the log
\* None, for the optional file and data of a payload.
None == "None"

\* An Event with every field of its payload; the timestamp is left out.
FullEvent(t, a, x, p, f, d) ==
    [type |-> t, agent |-> a, text |-> x, progress |-> p, file |-> f, data |-> d]

\* Event.to_json_dict, with a plausible slip: the payload is written without its
\* empty values (a progress of 0, an empty text, an empty data), not only
\* without its None values.
ToJsonDictDropEmpty(e) ==
    LET keys == (IF e.text # "" THEN {"text"} ELSE {})
                \cup (IF e.progress \notin {NoProgress, 0} THEN {"progress"} ELSE {})
                \cup (IF e.file # None THEN {"file"} ELSE {})
                \cup (IF e.data \notin {None, "{}"} THEN {"data"} ELSE {})
    IN  [json |-> TRUE, type |-> e.type, agent |-> e.agent,
         payload |-> [k \in keys |-> e[k]]]

\* Event.to_json_dict, as json.dumps writes it: the payload is
\* self.payload.dict(exclude_none=True), the keys whose value is not None.
ToJsonDict(e) ==
    LET keys == {"text"}
                \cup (IF e.progress # NoProgress THEN {"progress"} ELSE {})
                \cup (IF e.file # None THEN {"file"} ELSE {})
                \cup (IF e.data # None THEN {"data"} ELSE {})
    IN  [json |-> TRUE, type |-> e.type, agent |-> e.agent,
         payload |-> [k \in keys |-> e[k]]]

\* WorkerProcess._parse_event(data) of the worker `name`, on a record with a
\* payload dict: the type must be one of EventType, the payload is
\* EventPayload(**payload_data) with the text defaulting to str(data), and the
\* agent of the Event is the reading worker's name.
ParseEventRecord(name, data) ==
    LET payload == data.payload
        field(k, default) == IF k \in DOMAIN payload THEN payload[k] ELSE default
        progress == field("progress", NoProgress)
    IN  IF data.type = "" \/ data.type \notin EventType
        THEN <<>>
        ELSE IF progress # NoProgress /\ (progress < 0 \/ progress > 100)
        THEN <<>>
        ELSE <<FullEvent(data.type, name, field("text", "str(data)"), progress,
                         field("file", None), field("data", None))>>

\* The Events that are written: every kind and role, an empty and a non-empty
\* text, no progress and the progress values 0, 50 and 100, with and without a
\* file, without data and with an empty and a non-empty data.
RoundTripEvents ==
    {FullEvent(t, a, x, p, f, d) :
        t \in EventType, a \in AgentName, x \in {"", "Working..."},
        p \in {NoProgress, 0, 50, 100}, f \in {None, "src/app.py"},
        d \in {None, "{}", "{\"step\": 1}"}}

\* An Event of a worker is held in memory and its log is empty.
InitRoundTrip ==
    \E e \in RoundTripEvents :
        /\ workers = {e.agent}
        /\ session_workers = {e.agent}
        /\ wstate = [r \in AgentName |-> WorkerState("running", 0, 0)]
        /\ proc = [r \in AgentName |-> IF r = e.agent THEN "running" ELSE "none"]
        /\ skip_git_check = [r \in AgentName |-> TRUE]
        /\ dir_access = DirsAccessible
        /\ EmptyFiles
        /\ FlagsDown
        /\ ev_keys = <<e.agent>>
        /\ all_events = [r \in AgentName |-> IF r = e.agent THEN <<e>> ELSE <<>>]
        /\ idx = 1
        /\ pos = 0
        /\ rec_issue = "none"
        /\ EmptyRecords
        /\ round_reviews = <<>>
        /\ pc = "write"

\* f.write(json.dumps(event.to_json_dict()) + "\n") on the log of the Event's
\* role, the record file of that role.
WriteRecord ==
    /\ pc = "write"
    /\ LET r == ev_keys[1]
       IN  /\ log_len' = [log_len EXCEPT ![r] = @ + 1]
           /\ unread' = [unread EXCEPT ![r] = Append(@, ToJsonDict(all_events[r][1]))]
    /\ pc' = "written"
    /\ UNCHANGED <<pos, skip_git_check, dir_access, workers, session_workers, wstate, proc, offset,
                   stderr, flags, loop_locals, review_state, recovery_logs, env_steps, resumed>>

\* read_events() of the worker whose log it is: the record is decoded by
\* _parse_event and the offset moves to the end of the log.
ReadRecord ==
    /\ pc = "written"
    /\ LET r == ev_keys[1]
       IN  /\ all_events' = [all_events EXCEPT ![r] = ParseEventRecord(r, unread[r][1])]
           /\ offset' = [offset EXCEPT ![r] = log_len[r]]
           /\ unread' = [unread EXCEPT ![r] = <<>>]
    /\ pc' = "read_back"
    /\ UNCHANGED <<pos, skip_git_check, dir_access, workers, session_workers, wstate, proc, log_len,
                   stderr, flags, ev_keys, idx, rec_issue, review_state, recovery_logs, env_steps,
                   resumed>>

NextRoundTrip ==
    \/ WriteRecord
    \/ ReadRecord

SpecRoundTrip == InitRoundTrip /\ [][NextRoundTrip]_vars

\* C31: the Event decoded from the record of an Event equals that Event in
\* kind, role, payload text, progress, file and data.
C31_RoundTrip ==
    [][ReadRecord =>
          /\ Len(all_events'[ev_keys[1]]) = 1
          /\ all_events'[ev_keys[1]][1] = all_events[ev_keys[1]][1]]_vars

\* An Event with progress 0, no file and an empty data has been written and
\* read back.
C31_Witness ==
    /\ pc = "read_back"
    /\ Len(all_events[ev_keys[1]]) = 1
    /\ all_events[ev_keys[1]][1].progress = 0
    /\ all_events[ev_keys[1]][1].file = None
    /\ all_events[ev_keys[1]][1].data = "{}"
    /\ all_events[ev_keys[1]][1].text = ""

\* ------------------------------------------------- the status an event gives
\* C32: folding an event whose text holds no completion keyword sets the status
\* to running for the kinds progress and status, to blocked for blocker, to
\* recovering for recovery, to blocked for an error whose text names a blocker
\* in any case, and leaves it as it was for every other error and for the
\* kinds finding, task, review, milestone and permission_blocker.
C32_StatusByKind ==
    [][(/\ FoldStep
        /\ all_events[ev_keys[idx]][pos + 1].text \notin {"All tasks DONE", "Major phase complete"})
          => LET e == all_events[ev_keys[idx]][pos + 1]
                 before == wstate[ev_keys[idx]].status
             IN  wstate'[ev_keys[idx]].status =
                    (CASE e.type \in {"progress", "status"} -> "running"
                       [] e.type = "blocker" -> "blocked"
                       [] e.type = "recovery" -> "recovering"
                       [] e.type = "error" ->
                            IF e.text \in {"Found a blocker", "BLOCKER raised"}
                            THEN "blocked" ELSE before
                       [] OTHER -> before)]_vars

\* A batch of a blocker event and then a status event has been folded: the
\* worker, blocked after the first, is running after the second.
C32_Witness ==
    /\ pc = "fold"
    /\ pos = 2
    /\ all_events[ev_keys[idx]][1].type = "blocker"
    /\ all_events[ev_keys[idx]][1].text = "Blocked on X"
    /\ all_events[ev_keys[idx]][2].type = "status"
    /\ all_events[ev_keys[idx]][2].text = "Working..."
    /\ wstate[ev_keys[idx]].status = "running"

\* ------------------------------------------------- the milestone step
\* C33, as stated: folding a milestone event with no progress field and no
\* completion keyword sets the progress to min(progress + 20, 90), whatever
\* the progress was.
C33_MilestoneStepAsStated ==
    [][(/\ FoldStep
        /\ all_events[ev_keys[idx]][pos + 1].type = "milestone"
        /\ all_events[ev_keys[idx]][pos + 1].progress = NoProgress
        /\ all_events[ev_keys[idx]][pos + 1].text = "Working...")
          => LET before == wstate[ev_keys[idx]].progress
             IN  wstate'[ev_keys[idx]].progress = (IF before + 20 <= 90 THEN before + 20 ELSE 90)]_vars

\* C33, amended: such a milestone event sets the progress to
\* min(progress + 20, 90) when the progress was 90 or less and leaves a progress
\* above 90 as it was.
C33_MilestoneStep ==
    [][(/\ FoldStep
        /\ all_events[ev_keys[idx]][pos + 1].type = "milestone"
        /\ all_events[ev_keys[idx]][pos + 1].progress = NoProgress
        /\ all_events[ev_keys[idx]][pos + 1].text = "Working...")
          => LET before == wstate[ev_keys[idx]].progress
             IN  wstate'[ev_keys[idx]].progress =
                    (IF before > 90 THEN before
                     ELSE IF before + 20 <= 90 THEN before + 20 ELSE 90)]_vars

\* A milestone event was folded first into a worker that is at progress 95: the
\* progress was above 90 before the event and is unchanged.
C33_Witness ==
    /\ pc = "fold"
    /\ pos = 1
    /\ all_events[ev_keys[idx]][1].type = "milestone"
    /\ all_events[ev_keys[idx]][1].text = "Working..."
    /\ wstate[ev_keys[idx]].progress = 95

\* ------------------------------------------------- milestones and completion
\* C34: folding a milestone event that carries no progress field, whatever its
\* text, neither raises the progress above 90 nor sets the status to completed.
C34_MilestoneNeverCompletes ==
    [][(/\ FoldStep
        /\ all_events[ev_keys[idx]][pos + 1].type = "milestone"
        /\ all_events[ev_keys[idx]][pos + 1].progress = NoProgress)
          => /\ wstate'[ev_keys[idx]].progress > 90 =>
                    wstate'[ev_keys[idx]].progress = wstate[ev_keys[idx]].progress
             /\ wstate'[ev_keys[idx]].status = "completed" =>
                    wstate[ev_keys[idx]].status = "completed"]_vars

\* ------------------------------------------------- completed means 90 or more
\* C35: when the state-update pass of a worker has ended, the worker's progress
\* lies in 0..100, and it is 90 or more when the worker's status is completed.
C35_CompletedHasProgress ==
    pc = "folded" =>
        /\ wstate[FoldRole].progress \in 0..100
        /\ wstate[FoldRole].status = "completed" => wstate[FoldRole].progress >= 90

\* A worker whose process had exited reported progress 90 last and has been
\* resolved to completed at progress 90.
C35_Witness ==
    /\ pc = "folded"
    /\ ~IsRunning(FoldRole)
    /\ all_events[FoldRole] # <<>>
    /\ all_events[FoldRole][Len(all_events[FoldRole])] = Event("progress", "Working...", 90)
    /\ wstate[FoldRole].status = "completed"
    /\ wstate[FoldRole].progress = 90

\* ------------------------------------------------- one live process per role
\* C36: a step that starts a process for a role (the launch at session start,
\* the launch of a recovery) is taken when the role has no live process, also
\* when stop() calls are interleaved with the recovery: a role never has two
\* live processes.
C36_OneLiveProcessPerRole ==
    [][/\ LaunchAllWorkers => \A r \in AgentName : ~IsRunning(r)
       /\ Relaunch => ~IsRunning(ev_keys[idx])
       /\ \A r \in AgentName :
            (~IsRunning(r) /\ IsRunning(r)') =>
                \/ LaunchAllWorkers
                \/ Relaunch /\ r = ev_keys[idx]]_vars

\* stop() was called between the stop and the launch of a recovery: the
\* registry is empty, one recovery is recorded and its worker is alive.
C36_Witness ==
    /\ StopCalled
    /\ Len(engine_actions) = 1
    /\ engine_actions[1].action \in {"relaunched_with_directories", "relaunched_with_skip_flag"}
    /\ IsRunning(engine_actions[1].worker)

\* ------------------------------------------------------ role-specific tags
\* C37: detection returns the tag gemini_permissions for the role gemini only
\* and the tag codex_git_check for the role codex only.
C37_RoleSpecificTags ==
    [][DetectCall =>
          /\ rec_issue' = "gemini_permissions" => ev_keys[idx] = "gemini"
          /\ rec_issue' = "codex_git_check" => ev_keys[idx] = "codex"]_vars

\* ------------------------------------------------- blockers of every role
\* C38: in a review round with the three workers registered, a blocker event
\* in the batch of any worker gives the decision stop-and-escalate and sets the
\* paused flag, and every role is the target of at least one review of the round.
C38_AnyBlockerEscalates ==
    [][(/\ ReviewStep
        /\ workers = AgentName
        /\ \E r \in AgentName : \E i \in 1..Len(all_events[r]) :
              all_events[r][i].type = "blocker")
          => /\ Len(decisions') = Len(decisions) + 1
             /\ decisions'[Len(decisions')].action = "STOP_AND_ESCALATE"
             /\ is_paused'
             /\ \A r \in AgentName : \E i \in 1..Len(round_reviews') :
                   round_reviews'[i].target = r]_vars

\* ------------------------------------------ one event sequence, two batchings
\* The longest event sequence a worker writes in its life.
MaxScript == 3

\* The two workers that write the same event sequence; the folds of two
\* workers share nothing, so they stand for two runs.  The third worker stays
\* alive and silent, which keeps check_completion false and the loop going.
SplitRoles == {"gemini", "claude"}

\* The lines of the sequence: none is an error or a blocker, so that neither a
\* recovery nor a pausing review decision comes between two iterations.
SplitLines ==
    {JsonLine("progress", "Working...", 40),
     JsonLine("progress", "Working...", 80),
     JsonLine("status", "Working...", NoProgress),
     JsonLine("milestone", "Working...", NoProgress),
     JsonLine("finding", "Working...", NoProgress)}

SplitScripts == UNION {[1..n -> SplitLines] : n \in 1..MaxScript}

\* The monitoring loop about to ingest, the three workers just launched.  For
\* the two writing workers unread[r] holds the lines from the read offset to
\* the end of what the worker writes in its life; log_len[r] of them, counted
\* from the start of the log, are in the log.
InitSplit ==
    \E script \in SplitScripts :
        /\ workers = AgentName
        /\ session_workers = AgentName
        /\ wstate = [r \in AgentName |-> WorkerState("running", 0, 0)]
        /\ proc = [r \in AgentName |-> "running"]
        /\ skip_git_check = [r \in AgentName |-> TRUE]
        /\ dir_access = DirsAccessible
        /\ log_len = [r \in AgentName |-> 0]
        /\ offset = [r \in AgentName |-> 0]
        /\ unread = [r \in AgentName |-> IF r \in SplitRoles THEN script ELSE <<>>]
        /\ stderr = [r \in AgentName |-> <<>>]
        /\ is_running = TRUE
        /\ is_paused = FALSE
        /\ is_complete = FALSE
        /\ resumed = FALSE
        /\ ev_keys = KeysOf(AgentName)
        /\ all_events = NoEvents
        /\ idx = 1
        /\ pos = 0
        /\ rec_issue = "none"
        /\ EmptyRecords
        /\ round_reviews = <<>>
        /\ pc = "ingest"

\* How many lines of its sequence a worker has still to write.
ToWrite(r) == offset[r] + Len(unread[r]) - log_len[r]

\* A worker writes the next line of its sequence to its log.
SplitWrite(r) ==
    /\ r \in SplitRoles
    /\ IsRunning(r)
    /\ ToWrite(r) > 0
    /\ log_len' = [log_len EXCEPT ![r] = @ + 1]
    /\ UNCHANGED <<pos, skip_git_check, dir_access, workers, session_workers, wstate, proc, unread,
                   offset, stderr, flags, pc, loop_locals, review_state, recovery_logs,
                   env_steps, resumed>>

\* A worker exits, its sequence written.
SplitExit(r) ==
    /\ r \in SplitRoles
    /\ ToWrite(r) = 0
    /\ WorkerExit(r)

\* get_all_events(): every worker's read_events() returns the lines between
\* its offset and the end of its log.
SplitIngest ==
    /\ pc = "ingest"
    /\ all_events' = [r \in AgentName |->
                        ParseLines(SubSeq(unread[r], 1, log_len[r] - offset[r]))]
    /\ unread' = [r \in AgentName |->
                    SubSeq(unread[r], log_len[r] - offset[r] + 1, Len(unread[r]))]
    /\ offset' = log_len
    /\ pc' = "update"
    /\ UNCHANGED <<pos, skip_git_check, dir_access, workers, session_workers, wstate, proc, log_len,
                   stderr, flags, ev_keys, idx, rec_issue, review_state, recovery_logs,
                   env_steps, resumed>>

\* _update_worker_states_from_events(all_events), every worker of the batch.
SplitUpdate ==
    /\ pc = "update"
    /\ wstate' = [r \in AgentName |-> UpdatedState(r)]
    /\ pc' = "ingest"
    /\ UNCHANGED <<pos, skip_git_check, dir_access, workers, session_workers, proc, files, flags,
                   loop_locals, review_state, recovery_logs, env_steps, resumed>>

NextSplit ==
    \/ SplitIngest
    \/ SplitUpdate
    \/ \E r \in AgentName : SplitWrite(r)
    \/ \E r \in AgentName : SplitExit(r)

SpecSplit == InitSplit /\ [][NextSplit]_vars

\* The worker has exited, every line of its sequence was ingested and folded,
\* and a further state-update pass changes nothing.
SplitSettled(r) ==
    /\ ~IsRunning(r)
    /\ unread[r] = <<>>
    /\ pc = "ingest"
    /\ wstate[r] = Resolve(wstate[r], r \in workers, IsRunning(r))

\* C39: two workers that wrote the same event sequence and exited, whose
\* events were all folded, have the same status and the same progress,
\* however the sequence of each was cut into batches by the polling.
C39_SplitIndependent ==
    (SplitSettled("gemini") /\ SplitSettled("claude")) =>
        /\ wstate["gemini"].status = wstate["claude"].status
        /\ wstate["gemini"].progress = wstate["claude"].progress

\* ------------------------------------------------- the loop left to itself
\* The system when nobody calls the control surface: the workers are launched,
\* the loop runs, the processes write and exit.
NextUnattended ==
    \/ LaunchAllWorkers
    \/ MonitorStart
    \/ WhileCheck
    \/ Ingest
    \/ UpdateWorker
    \/ RecoverStep
    \/ Relaunch
    \/ ReviewStep
    \/ CheckStep
    \/ Tick
    \/ \E r \in AgentName : WorkerWrite(r)
    \/ \E r \in AgentName : WorkerStderr(r)
    \/ \E r \in AgentName : WorkerExit(r)

SpecUnattended == Init /\ [][NextUnattended]_vars

\* C40: with no pause and no stop requested, the monitoring loop is left only
\* with the session marked complete; nothing starts the loop again once it is
\* left, so a loop left otherwise never reaches completion.
C40_EndsComplete ==
    pc = "ended" => is_complete

====
